---- MODULE Spec2Model ----
(***************************************************************************)
(* A model of the scoring-and-escalation pipeline of the ETHRAIC platform: *)
(*   src/lib/metrics.ts          lexical metrics, composite, EMA, phase    *)
(*                               classifier, ParadigmShiftDetector         *)
(*   src/lib/crisis-protocols.ts CrisisProtocols                           *)
(*   src/app/api/think/route.ts  the request pipeline                      *)
(*                                                                         *)
(* Numbers.  JavaScript numbers are modelled as exact rationals            *)
(* [n |-> numerator, d |-> denominator] in lowest terms with d >= 0.  The  *)
(* IEEE-754 special values are the rationals with denominator 0:           *)
(* 0/0 is NaN, 1/0 is +Infinity and -1/0 is -Infinity, so that a division  *)
(* by zero in the code yields in the model what it yields in the program.  *)
(* Rounding of the binary floating point representation is not modelled.   *)
(*                                                                         *)
(* Text.  A text is a TLA+ string; characters are its substrings of        *)
(* length 1.                                                               *)
(***************************************************************************)
EXTENDS Integers, Sequences, FiniteSets, TLC

VARIABLES
    \* ---- phaseFromComposite, applied to one argument after another
    phaseArg,        \* the argument c_ema of the last call
    phaseRet,        \* the phase it returned ("none" before the first call)
    phaseArgPrev,    \* the argument of the call before
    phaseRetPrev,    \* the phase that call returned
    \* ---- a ParadigmShiftDetector
    paradigmState,   \* its field paradigmState
    anomalyHistory,  \* its field anomalyHistory
    paradigmBefore,  \* paradigmState before the last call
    pOp,             \* the method called last ("none" for a new detector)
    pArgs,           \* the two numeric arguments of that call
    pRet,            \* what it returned
    \* ---- a CrisisProtocols object
    safetyMetrics,       \* its field safetyMetrics
    messageHistory,      \* its field messageHistory
    interventionHistory, \* its field interventionHistory
    now,                 \* Date.now() at the last analyzeForCrisis call
    passed,              \* the messages passed to analyzeForCrisis so far
    cMetrics,            \* the metrics argument of the last analyzeForCrisis call
    cIndicators,         \* the local array indicators of that call
    cRet,                \* what that call returned
    \* ---- the route /api/think, its environment and its database
    envWeights,      \* process.env.METRICS_WEIGHTS
    sessions,        \* the number of rows of the table sessions (ids 1..sessions)
    messagesTable,   \* the rows of the table messages, oldest first
    metricsTable,    \* the rows of the table metrics, oldest first
    posts,           \* the number of requests handled
    faults,          \* the number of requests in which something failed
    response,        \* the body and status of the last response
    rText,           \* the text the last request scored (the model's reply)
    rParts,          \* the five metrics of the last request, as computed
    rPrev,           \* what getPrevEMA returned in the last request
    requests,        \* the requests in flight: where each stands in POST, its locals
    \* ---- the functions of lib/metrics.ts, called directly
    called           \* the function called, its arguments and what it returned

phaseVars == <<phaseArg, phaseRet, phaseArgPrev, phaseRetPrev>>

paradigmVars == <<paradigmState, anomalyHistory, paradigmBefore, pOp, pArgs, pRet>>

crisisVars == <<safetyMetrics, messageHistory, interventionHistory, now, passed,
                cMetrics, cIndicators, cRet>>

routeVars == <<envWeights, sessions, messagesTable, metricsTable, posts, faults,
               response, rText, rParts, rPrev, requests>>

vars == <<phaseVars, paradigmVars, crisisVars, routeVars, called>>

\* What the actions of one component leave unchanged.
notPhaseVars == <<paradigmVars, crisisVars, routeVars, called>>
notParadigmVars == <<phaseVars, crisisVars, routeVars, called>>
notCrisisVars == <<phaseVars, paradigmVars, routeVars, called>>
notRouteVars == <<phaseVars, paradigmVars, crisisVars, called>>
notCalled == <<phaseVars, paradigmVars, crisisVars, routeVars>>

-----------------------------------------------------------------------------
(* Bounds of the model *)

\* Numeric inputs in [0,1] are drawn from the grid 0/GridSteps .. GridSteps/GridSteps.
GridSteps == 20

\* The levels passed to a ParadigmShiftDetector are drawn from
\* 0/LevelSteps .. LevelSteps/LevelSteps.
LevelSteps == 10

\* The anomaly lists passed to trackAnomalyAccumulation have 0 or MaxAnomalies
\* entries, and at most MaxTracks lists are passed.
MaxAnomalies == 11
MaxTracks == 1

\* analyzeForCrisis is called at most MaxCalls times on one object with
\* arbitrary messages, metrics and timing,
MaxCalls == 1

\* at most MaxSessionCalls times in a session of empty messages and questions,
MaxSessionCalls == 5

\* and at most MaxHistoryCalls times, at most MaxMarked of them with a message
\* other than the empty one, where the history overflows.
MaxHistoryCalls == 52
MaxMarked == 1

\* The milliseconds between two calls of a session.
Tick == 1000

\* The route handles at most MaxPosts requests, and in at most MaxFaults of
\* them something fails.
MaxPosts == 2
MaxFaults == 1

\* generateIntervention is called at most MaxInterventions times between two
\* resets.
MaxInterventions == 1

-----------------------------------------------------------------------------
(* Numbers *)

Abs(i) == IF i < 0 THEN -i ELSE i

Sign(i) == IF i < 0 THEN -1 ELSE IF i > 0 THEN 1 ELSE 0

RECURSIVE GCD(_, _)
GCD(a, b) == IF b = 0 THEN a ELSE GCD(b, a % b)

\* The number n/d in lowest terms; n/0 is NaN (n = 0) or an infinity.
Rat(n, d) ==
    IF d = 0 THEN [n |-> Sign(n), d |-> 0]
    ELSE LET g == GCD(Abs(n), Abs(d))
         IN  [n |-> (Sign(d) * n) \div g, d |-> Abs(d) \div g]

Num(i) == [n |-> i, d |-> 1]
NaN == [n |-> 0, d |-> 0]
Infinity == [n |-> 1, d |-> 0]

IsNaN(x) == x.n = 0 /\ x.d = 0
IsFinite(x) == x.d > 0

\* x + y; Infinity + -Infinity and anything + NaN are NaN.
RAdd(x, y) ==
    IF IsNaN(x) \/ IsNaN(y) THEN NaN
    ELSE IF x.d = 0 /\ y.d = 0 THEN (IF x.n = y.n THEN x ELSE NaN)
    ELSE IF x.d = 0 THEN x
    ELSE IF y.d = 0 THEN y
    ELSE LET g == GCD(x.d, y.d)
             n == x.n * (y.d \div g) + y.n * (x.d \div g)
             d == (x.d \div g) * y.d
         IN  Rat(n, d)

RNeg(x) == [n |-> -x.n, d |-> x.d]

RSub(x, y) == RAdd(x, RNeg(y))

\* x * y; 0 * Infinity is NaN.
RMul(x, y) ==
    LET n == x.n * y.n
        d == x.d * y.d
    IN  Rat(n, d)

\* x / y; x / 0 is an infinity for x # 0 and NaN for x = 0 (the zero is +0).
RDiv(x, y) ==
    LET n == x.n * y.d * (IF y.n < 0 THEN -1 ELSE 1)
        d == x.d * Abs(y.n)
    IN  Rat(n, d)

\* x < y, x > y, ...: every comparison with NaN is false.
RLt(x, y) == ~IsNaN(x) /\ ~IsNaN(y) /\ x # y /\ x.n * y.d < y.n * x.d
RGt(x, y) == RLt(y, x)
RLe(x, y) == ~IsNaN(x) /\ ~IsNaN(y) /\ (x = y \/ RLt(x, y))
RGe(x, y) == RLe(y, x)

\* Math.min and Math.max return NaN when an argument is NaN.
MathMin(x, y) == IF IsNaN(x) \/ IsNaN(y) THEN NaN ELSE IF RLt(y, x) THEN y ELSE x
MathMax(x, y) == IF IsNaN(x) \/ IsNaN(y) THEN NaN ELSE IF RGt(y, x) THEN y ELSE x

\* x || dflt for a number x: 0 and NaN are falsy.
OrElse(x, dflt) == IF IsNaN(x) \/ x = Num(0) THEN dflt ELSE x

clamp(x) == MathMax(Num(0), MathMin(Num(1), x))

\* The grid of inputs in [0,1].
Grid == {Rat(k, GridSteps) : k \in 0..GridSteps}

-----------------------------------------------------------------------------
(* lib/metrics.ts: the phase classifier *)

Phases == {"SURFACE", "EXPLORING", "DEEP", "INTEGRATION", "BREAKTHROUGH"}

\* A classifier that puts a value at the boundary 0.30 in the lower band.
phaseFromCompositeLowerBoundary(c_ema) ==
    IF RLe(c_ema, Rat(30, 100)) THEN "SURFACE"
    ELSE IF RLt(c_ema, Rat(50, 100)) THEN "EXPLORING"
    ELSE IF RLt(c_ema, Rat(70, 100)) THEN "DEEP"
    ELSE IF RLt(c_ema, Rat(85, 100)) THEN "INTEGRATION"
    ELSE "BREAKTHROUGH"

phaseFromComposite(c_ema) ==
    IF RLt(c_ema, Rat(30, 100)) THEN "SURFACE"
    ELSE IF RLt(c_ema, Rat(50, 100)) THEN "EXPLORING"
    ELSE IF RLt(c_ema, Rat(70, 100)) THEN "DEEP"
    ELSE IF RLt(c_ema, Rat(85, 100)) THEN "INTEGRATION"
    ELSE "BREAKTHROUGH"

InitPhaseVars ==
    /\ phaseArg = Num(0)
    /\ phaseRet = "none"
    /\ phaseArgPrev = Num(0)
    /\ phaseRetPrev = "none"

\* One call phaseFromComposite(c); the call before it is remembered.
PhaseCall(c) ==
    /\ phaseArgPrev' = phaseArg
    /\ phaseRetPrev' = phaseRet
    /\ phaseArg' = c
    /\ phaseRet' = phaseFromComposite(c)
    /\ UNCHANGED notPhaseVars

-----------------------------------------------------------------------------
(* lib/metrics.ts: ParadigmShiftDetector *)

ParadigmStates ==
    {"NORMAL_SCIENCE", "ANOMALY_AWARENESS", "CRISIS_EMERGENCE",
     "PARADIGM_REVOLUTION", "TRANSITION_CHAOS", "NEW_PARADIGM_FORMATION"}

AnomalyHistoryCap == 20

Levels == {Rat(k, LevelSteps) : k \in 0..LevelSteps}

\* string[] arguments: only the length of a list is read by the detector.
AnomalyLists ==
    {[i \in 1..k |-> "anomaly"] : k \in {0, MaxAnomalies}}

NoAssessment == [riskLevel |-> "none", intervention |-> "none",
                 recommendation |-> "none", response |-> "none"]

\* An update that never leaves NEW_PARADIGM_FORMATION once it is entered.
updateParadigmStateTerminal(crisisLevel, anomalyAccumulation) ==
    LET composite == RDiv(RAdd(crisisLevel, anomalyAccumulation), Num(2))
    IN  IF paradigmState = "NEW_PARADIGM_FORMATION" THEN paradigmState
        ELSE IF RLt(composite, Rat(15, 100)) THEN "NORMAL_SCIENCE"
        ELSE IF RLt(composite, Rat(35, 100)) THEN "ANOMALY_AWARENESS"
        ELSE IF RLt(composite, Rat(55, 100)) THEN "CRISIS_EMERGENCE"
        ELSE IF RLt(composite, Rat(75, 100)) THEN "PARADIGM_REVOLUTION"
        ELSE IF RLt(composite, Rat(90, 100)) THEN "TRANSITION_CHAOS"
        ELSE "NEW_PARADIGM_FORMATION"

\* An update with hysteresis: the band is looked up for the mean of the
\* composite and the lower edge of the band the detector is in.
updateParadigmStateHysteresis(crisisLevel, anomalyAccumulation) ==
    LET floor == CASE paradigmState = "NORMAL_SCIENCE" -> Rat(0, 100)
                   [] paradigmState = "ANOMALY_AWARENESS" -> Rat(15, 100)
                   [] paradigmState = "CRISIS_EMERGENCE" -> Rat(35, 100)
                   [] paradigmState = "PARADIGM_REVOLUTION" -> Rat(55, 100)
                   [] paradigmState = "TRANSITION_CHAOS" -> Rat(75, 100)
                   [] paradigmState = "NEW_PARADIGM_FORMATION" -> Rat(90, 100)
        composite == RDiv(RAdd(RDiv(RAdd(crisisLevel, anomalyAccumulation), Num(2)),
                               floor), Num(2))
    IN  IF RLt(composite, Rat(15, 100)) THEN "NORMAL_SCIENCE"
        ELSE IF RLt(composite, Rat(35, 100)) THEN "ANOMALY_AWARENESS"
        ELSE IF RLt(composite, Rat(55, 100)) THEN "CRISIS_EMERGENCE"
        ELSE IF RLt(composite, Rat(75, 100)) THEN "PARADIGM_REVOLUTION"
        ELSE IF RLt(composite, Rat(90, 100)) THEN "TRANSITION_CHAOS"
        ELSE "NEW_PARADIGM_FORMATION"

\* The value updateParadigmState assigns to this.paradigmState.
updateParadigmState(crisisLevel, anomalyAccumulation) ==
    LET composite == RDiv(RAdd(crisisLevel, anomalyAccumulation), Num(2))
    IN  IF RLt(composite, Rat(15, 100)) THEN "NORMAL_SCIENCE"
        ELSE IF RLt(composite, Rat(35, 100)) THEN "ANOMALY_AWARENESS"
        ELSE IF RLt(composite, Rat(55, 100)) THEN "CRISIS_EMERGENCE"
        ELSE IF RLt(composite, Rat(75, 100)) THEN "PARADIGM_REVOLUTION"
        ELSE IF RLt(composite, Rat(90, 100)) THEN "TRANSITION_CHAOS"
        ELSE "NEW_PARADIGM_FORMATION"

\* A safety assessment whose MODERATE tier starts at crisisLevel = 0.6.
assessPsychologicalSafetyInclusive(crisisLevel, fragmentationLevel) ==
    IF RGt(crisisLevel, Rat(8, 10)) /\ RGt(fragmentationLevel, Rat(7, 10))
    THEN [riskLevel |-> "HIGH", intervention |-> "IMMEDIATE_SUPPORT",
          recommendation |-> "Consider professional mental health support",
          response |-> "Crisis counseling mode - prioritize stability."]
    ELSE IF RGe(crisisLevel, Rat(6, 10))
    THEN [riskLevel |-> "MODERATE", intervention |-> "ENHANCED_SUPPORT",
          recommendation |-> "Monitor closely; provide grounding.",
          response |-> "Supportive guidance with reality anchoring."]
    ELSE [riskLevel |-> "LOW", intervention |-> "STANDARD_SUPPORT",
          recommendation |-> "Continue normal consciousness expansion.",
          response |-> "Standard paradigm-shift guidance."]

assessPsychologicalSafety(crisisLevel, fragmentationLevel) ==
    IF RGt(crisisLevel, Rat(8, 10)) /\ RGt(fragmentationLevel, Rat(7, 10))
    THEN [riskLevel |-> "HIGH", intervention |-> "IMMEDIATE_SUPPORT",
          recommendation |-> "Consider professional mental health support",
          response |-> "Crisis counseling mode - prioritize stability."]
    ELSE IF RGt(crisisLevel, Rat(6, 10))
    THEN [riskLevel |-> "MODERATE", intervention |-> "ENHANCED_SUPPORT",
          recommendation |-> "Monitor closely; provide grounding.",
          response |-> "Supportive guidance with reality anchoring."]
    ELSE [riskLevel |-> "LOW", intervention |-> "STANDARD_SUPPORT",
          recommendation |-> "Continue normal consciousness expansion.",
          response |-> "Standard paradigm-shift guidance."]

calculateAnomalySeverity(anomalies) == Rat(Len(anomalies), 10)

RECURSIVE SumSeverity(_)
SumSeverity(h) ==
    IF h = <<>> THEN Num(0) ELSE RAdd(Head(h).severity, SumSeverity(Tail(h)))

\* sum / (length || 1)
assessAccumulationPattern(history) ==
    RDiv(SumSeverity(history), Num(IF Len(history) = 0 THEN 1 ELSE Len(history)))

InitParadigmVars ==
    /\ paradigmState = "NORMAL_SCIENCE"
    /\ anomalyHistory = <<>>
    /\ paradigmBefore = "NORMAL_SCIENCE"
    /\ pOp = "none"
    /\ pArgs = <<Num(0), Num(0)>>
    /\ pRet = [assessment |-> NoAssessment, accumulation |-> Num(0)]

\* detector.updateParadigmState(crisisLevel, anomalyAccumulation)
UpdateCall(crisisLevel, anomalyAccumulation) ==
    /\ paradigmState' = updateParadigmState(crisisLevel, anomalyAccumulation)
    /\ paradigmBefore' = paradigmState
    /\ pOp' = "updateParadigmState"
    /\ pArgs' = <<crisisLevel, anomalyAccumulation>>
    /\ pRet' = [assessment |-> NoAssessment, accumulation |-> Num(0)]
    /\ UNCHANGED anomalyHistory
    /\ UNCHANGED notParadigmVars

\* detector.assessPsychologicalSafety(crisisLevel, fragmentationLevel)
AssessCall(crisisLevel, fragmentationLevel) ==
    /\ pRet' = [assessment |-> assessPsychologicalSafety(crisisLevel, fragmentationLevel),
                accumulation |-> Num(0)]
    /\ paradigmBefore' = paradigmState
    /\ pOp' = "assessPsychologicalSafety"
    /\ pArgs' = <<crisisLevel, fragmentationLevel>>
    /\ UNCHANGED <<paradigmState, anomalyHistory>>
    /\ UNCHANGED notParadigmVars

\* detector.trackAnomalyAccumulation(anomalies): push, drop the oldest entry
\* beyond the cap, return the mean severity.
TrackCall(anomalies) ==
    LET pushed == Append(anomalyHistory,
                         [anomalies |-> anomalies,
                          severity |-> calculateAnomalySeverity(anomalies)])
        kept == IF Len(pushed) > AnomalyHistoryCap THEN Tail(pushed) ELSE pushed
    IN  /\ anomalyHistory' = kept
        /\ pRet' = [assessment |-> NoAssessment,
                    accumulation |-> assessAccumulationPattern(kept)]
        /\ paradigmBefore' = paradigmState
        /\ pOp' = "trackAnomalyAccumulation"
        /\ pArgs' = <<Num(Len(anomalies)), Num(0)>>
        /\ UNCHANGED paradigmState
        /\ UNCHANGED notParadigmVars

-----------------------------------------------------------------------------
(* Text *)

UpperCaseLetters == "ABCDEFGHIJKLMNOPQRSTUVWXYZ"
LowerCaseLetters == "abcdefghijklmnopqrstuvwxyz"

Whitespace == {" ", "\t", "\n"}

CharAt(s, i) == SubSeq(s, i, i)

UpperCaseSet == {CharAt(UpperCaseLetters, i) : i \in 1..Len(UpperCaseLetters)}

LowerCaseOf ==
    [ch \in UpperCaseSet |->
        CharAt(LowerCaseLetters,
               CHOOSE i \in 1..Len(UpperCaseLetters) : CharAt(UpperCaseLetters, i) = ch)]

IsUpperCase(ch) == ch \in UpperCaseSet

toLowerCaseChar(ch) == IF ch \in UpperCaseSet THEN LowerCaseOf[ch] ELSE ch

\* String.prototype.toLowerCase
RECURSIVE toLowerCase(_)
toLowerCase(s) ==
    IF Len(s) = 0 THEN ""
    ELSE IF Len(s) = 1 THEN toLowerCaseChar(s)
    ELSE LET half == Len(s) \div 2
         IN  toLowerCase(SubSeq(s, 1, half)) \o toLowerCase(SubSeq(s, half + 1, Len(s)))

\* String.prototype.includes
includes(s, part) ==
    \E i \in 1..(Len(s) - Len(part) + 1) : SubSeq(s, i, i + Len(part) - 1) = part

\* (s.match(/[chars]/g) || []).length
MatchCount(s, chars) == Cardinality({i \in 1..Len(s) : CharAt(s, i) \in chars})

\* s.split(/[separators]+/): the pieces between the maximal runs of separators,
\* an empty piece before a leading and after a trailing run included.
\* The pieces of a text are those of its two halves, the last piece of the
\* first half and the first piece of the second joined into one; a run of
\* separators across the cut is one run.
RECURSIVE Split(_, _)
Split(s, separators) ==
    IF Len(s) = 0 THEN <<"">>
    ELSE IF Len(s) = 1 THEN (IF s \in separators THEN <<"", "">> ELSE <<s>>)
    ELSE LET half == Len(s) \div 2
             left == Split(SubSeq(s, 1, half), separators)
             right == Split(SubSeq(s, half + 1, Len(s)), separators)
             front == SubSeq(left, 1, Len(left) - 1)
         IN  IF CharAt(s, half) \in separators /\ CharAt(s, half + 1) \in separators
             THEN front \o Tail(right)
             ELSE front \o <<left[Len(left)] \o Head(right)>> \o Tail(right)

\* s.trim().length
TrimmedLength(s) ==
    LET inked == {i \in 1..Len(s) : CharAt(s, i) \notin Whitespace}
    IN  IF inked = {} THEN 0
        ELSE (CHOOSE i \in inked : \A j \in inked : j <= i)
             - (CHOOSE i \in inked : \A j \in inked : j >= i) + 1

RECURSIVE SumLengths(_)
SumLengths(words) ==
    IF words = <<>> THEN 0 ELSE Len(Head(words)) + SumLengths(Tail(words))

\* seq.slice(-n)
LastN(seq, n) ==
    SubSeq(seq, IF Len(seq) > n THEN Len(seq) - n + 1 ELSE 1, Len(seq))

-----------------------------------------------------------------------------
(* lib/crisis-protocols.ts: CrisisProtocols *)

MessageHistoryCap == 50

safetyThresholds ==
    [cognitiveOverload |-> Num(85), emotionalDistress |-> Num(75),
     confusionSpiral |-> Num(80), realityDisconnect |-> Num(70),
     breakthroughOverwhelm |-> Num(90)]

stabilizationPhrases ==
    [grounding |->
        <<"Let's take a moment to ground ourselves in the present.",
          "Take a deep breath. We can slow down the pace of exploration.",
          "Your safety and wellbeing come first. Let's recalibrate.">>,
     clarity |->
        <<"Let me help clarify and organize these thoughts.",
          "We can break this down into smaller, manageable insights.",
          "Let's focus on one core idea at a time.">>,
     support |->
        <<"You're navigating complex territory. That takes courage.",
          "These are profound realizations. It's natural to need time to integrate them.",
          "Remember, breakthrough moments can feel intense. This is normal.">>,
     reality |->
        <<"Let's connect these insights back to your everyday experience.",
          "How might this understanding apply to your immediate context?",
          "While exploring consciousness, staying grounded is essential.">>]

\* Math.floor(Math.random() * phrases.length), counted from 1.
PhraseIndexes == 1..3

overloadMarkers ==
    {"too much", "overwhelming", "can't process", "confused", "lost",
     "spinning", "don't understand", "too fast", "slow down", "wait"}

distressMarkers ==
    {"scared", "afraid", "anxious", "panic", "terrified", "help",
     "crying", "upset", "disturbed", "troubled", "distressed"}

positiveMarkers == {"excited", "amazing", "wonderful", "love", "beautiful", "joy"}

confusionMarkers ==
    {"what", "confused", "don't get it", "lost", "makes no sense",
     "contradictory", "paradox", "impossible", "how can"}

disconnectMarkers ==
    {"not real", "simulation", "matrix", "dream", "illusion",
     "nothing matters", "all meaningless", "fake", "unreal"}

emotionalWords ==
    {"feel", "felt", "feeling", "emotion", "heart", "soul",
     "love", "hate", "fear", "joy", "sad", "angry", "happy"}

connectors == {"because", "therefore", "thus", "so", "and", "but", "however"}

concreteWords ==
    {"see", "hear", "touch", "feel", "taste", "body", "physical",
     "real", "actual", "practical", "specific", "example", "like"}

abstractWords ==
    {"consciousness", "existence", "being", "essence", "infinite",
     "absolute", "transcendent", "universal", "eternal", "void"}

AllMarkers ==
    overloadMarkers \cup distressMarkers \cup positiveMarkers \cup confusionMarkers
    \cup disconnectMarkers \cup emotionalWords \cup connectors \cup concreteWords
    \cup abstractWords

\* The messages the specifications pass to analyzeForCrisis.
Messages ==
    {"",
     " ",
     "?!",
     "why?",
     "feel felt feeling emotion heart soul love hate",
     "confused and lost, wait?",
     "wait, slow down. what? how can? paradox",
     "incomprehensibilities",
     "HELP! I am scared, afraid, anxious",
     "I can see and hear it because it is real."}

\* Messages with disconnect markers, abstract words and concrete words.
GroundingMessages ==
    {"fake",
     "like a dream",
     "it is not real, a dream, an illusion",
     "consciousness and the infinite void",
     "feel the essence of being"}

\* The metrics argument: absent (undefined), or the engine's bundle, of which
\* the detector reads four fields, each in [0,100].
NoMetrics == [present |-> FALSE, depth |-> Num(0), paradigmShift |-> Num(0),
              emergence |-> Num(0), attentionCoherence |-> Num(0)]

MetricsInputs ==
    {NoMetrics,
     [present |-> TRUE, depth |-> Num(0), paradigmShift |-> Num(0),
      emergence |-> Num(0), attentionCoherence |-> Num(70)],
     [present |-> TRUE, depth |-> Num(100), paradigmShift |-> Num(100),
      emergence |-> Num(100), attentionCoherence |-> Num(10)]}

\* The milliseconds between two Date.now() readings.
Deltas == {0, 20000}

\* The messages of a session: the empty one and a question.
SessionMessages == {"", "why?"}

\* The metrics of a session: absent; an overwhelm score of 96; of 60 exactly;
\* and of 60 by an attentionCoherence of 0, which the detector reads as 100.
SessionMetrics ==
    {NoMetrics,
     [present |-> TRUE, depth |-> Num(100), paradigmShift |-> Num(100),
      emergence |-> Num(100), attentionCoherence |-> Num(10)],
     [present |-> TRUE, depth |-> Num(100), paradigmShift |-> Num(100),
      emergence |-> Num(100), attentionCoherence |-> Num(100)],
     [present |-> TRUE, depth |-> Num(100), paradigmShift |-> Num(100),
      emergence |-> Num(100), attentionCoherence |-> Num(0)]}

\* The markers of AllMarkers that message.toLowerCase() includes, tabulated
\* once for the messages of the model as pairs <<message, markers>>.
MarkersIncluded(message) ==
    LET lower == toLowerCase(message)
    IN  {w \in AllMarkers : includes(lower, w)}

MarkersInTable == {<<m, MarkersIncluded(m)>> : m \in Messages \cup GroundingMessages}

MarkersIn(message) == (CHOOSE row \in MarkersInTable : row[1] = message)[2]

\* markers.filter(marker => message.toLowerCase().includes(marker)).length
MarkerCount(message, markers) == Cardinality(markers \cap MarkersIn(message))

calculateComplexity(message) ==
    LET words == Split(message, Whitespace)
        avgWordLength == Rat(SumLengths(words), Len(words))
        sentenceCount == Len(Split(message, {".", "!", "?"}))
        wordCount == Len(words)
    IN  MathMin(Num(100),
                RAdd(RMul(avgWordLength, Num(5)),
                     RMul(Rat(wordCount, sentenceCount), Num(2))))

RECURSIVE SumIntervals(_)
SumIntervals(recentMessages) ==
    IF Len(recentMessages) < 2 THEN 0
    ELSE (recentMessages[2].timestamp - recentMessages[1].timestamp)
         + SumIntervals(Tail(recentMessages))

calculateResponseRate(history) ==
    LET recentMessages == LastN(history, 10)
        avgInterval == Rat(SumIntervals(recentMessages), Len(recentMessages) - 1)
        rapidThreshold == Num(5000)
    IN  IF Len(recentMessages) < 2 THEN Num(50)
        ELSE MathMin(Num(100), RMul(RDiv(rapidThreshold, avgInterval), Num(100)))

detectEmotionalLanguage(message) == MarkerCount(message, emotionalWords)

IsCompleteSentence(s) == Len(Split(s, Whitespace)) > 3

IsNonBlank(s) == TrimmedLength(s) > 0

calculateCoherence(message) ==
    LET connectorCount == MarkerCount(message, connectors)
        pieces == Split(message, {".", "!", "?"})
        sentences == Cardinality({i \in 1..Len(pieces) : IsNonBlank(pieces[i])})
        completeSentences ==
            Cardinality({i \in 1..Len(pieces) :
                            IsNonBlank(pieces[i]) /\ IsCompleteSentence(pieces[i])})
    IN  MathMin(Num(100),
                RAdd(Num(connectorCount * 15),
                     RMul(Rat(completeSentences, sentences), Num(70))))

\* A grounding without the base of 30.
calculateGroundingWithoutBase(message) ==
    LET concreteCount == MarkerCount(message, concreteWords)
        abstractCount == MarkerCount(message, abstractWords)
        ratio == IF abstractCount > 0 THEN Rat(concreteCount, abstractCount)
                 ELSE Num(concreteCount)
    IN  MathMin(Num(100), RMul(ratio, Num(50)))

calculateGrounding(message) ==
    LET concreteCount == MarkerCount(message, concreteWords)
        abstractCount == MarkerCount(message, abstractWords)
        ratio == IF abstractCount > 0 THEN Rat(concreteCount, abstractCount)
                 ELSE Num(concreteCount)
    IN  MathMin(Num(100), RAdd(RMul(ratio, Num(50)), Num(30)))

calculateAbstractness(message) ==
    RSub(Num(1), RDiv(calculateGrounding(message), Num(100)))

\* The text measures of the messages of the model, tabulated once as pairs
\* <<message, [complexity, coherence, question]>>.
TextMeasuresTable ==
    {<<m, [complexity |-> calculateComplexity(m),
           coherence |-> calculateCoherence(m),
           question |-> includes(m, "?")]>> : m \in Messages \cup GroundingMessages}

TextMeasures(message) == (CHOOSE row \in TextMeasuresTable : row[1] = message)[2]

getStabilizationPhrase(type, random) == stabilizationPhrases[type][random]

\* this.safetyMetrics after updateSafetyMetrics(message, metrics, context);
\* history is this.messageHistory, the message already pushed.
updateSafetyMetrics(message, metrics, history) ==
    LET messageComplexity == TextMeasures(message).complexity
        responseRate == calculateResponseRate(history)
        depth == IF metrics.present THEN OrElse(metrics.depth, Num(50)) ELSE Num(50)
        cognitiveLoad ==
            MathMin(Num(100),
                    RAdd(RAdd(RMul(messageComplexity, Rat(4, 10)),
                              RMul(responseRate, Rat(3, 10))),
                         RMul(depth, Rat(3, 10))))
        emotionalIndicators == detectEmotionalLanguage(message)
        emotionalStability == MathMax(Num(0), Num(100 - emotionalIndicators * 10))
        coherenceLevel == TextMeasures(message).coherence
        groundingScore == calculateGrounding(message)
        overwhelmIndex ==
            MathMin(Num(100),
                    RAdd(RAdd(RAdd(RMul(RSub(Num(100), emotionalStability), Rat(3, 10)),
                                   RMul(cognitiveLoad, Rat(3, 10))),
                              RMul(RSub(Num(100), coherenceLevel), Rat(2, 10))),
                         RMul(RSub(Num(100), groundingScore), Rat(2, 10))))
    IN  [cognitiveLoad |-> cognitiveLoad,
         emotionalStability |-> emotionalStability,
         coherenceLevel |-> coherenceLevel,
         groundingScore |-> groundingScore,
         overwhelmIndex |-> overwhelmIndex]

NoIndicator == [type |-> "null", severity |-> "null", confidence |-> Num(0),
                recommendation |-> "null", immediate_action |-> "null"]

\* A severity that is 'critical' for a score above 95.
SeverityOfWithCritical(score, high, medium) ==
    IF RGt(score, Num(95)) THEN "critical"
    ELSE IF RGt(score, Num(high)) THEN "high"
    ELSE IF RGt(score, Num(medium)) THEN "medium"
    ELSE "low"

\* severity: score > high ? 'high' : score > medium ? 'medium' : 'low'
SeverityOf(score, high, medium) ==
    IF RGt(score, Num(high)) THEN "high"
    ELSE IF RGt(score, Num(medium)) THEN "medium"
    ELSE "low"

\* Each detector: the indicator it returns, or NoIndicator for null.  sm is
\* this.safetyMetrics, random the draw of getStabilizationPhrase.
detectCognitiveOverload(message, sm, random) ==
    LET markerCount == MarkerCount(message, overloadMarkers)
        exclamationCount == MatchCount(message, {"!"})
        questionCount == MatchCount(message, {"?"})
        capsRatio == Rat(Cardinality({i \in 1..Len(message) : IsUpperCase(CharAt(message, i))}),
                         Len(message))
        overloadScore ==
            RAdd(Num(markerCount * 20 + exclamationCount * 10 + questionCount * 5),
                 RMul(capsRatio, Num(100)))
    IN  IF RGt(overloadScore, Num(40))
           \/ RGt(sm.cognitiveLoad, safetyThresholds.cognitiveOverload)
        THEN [type |-> "cognitive_overload",
              severity |-> SeverityOf(overloadScore, 80, 50),
              confidence |-> MathMin(Num(1), RDiv(overloadScore, Num(100))),
              recommendation |->
                "Slow down exploration pace, simplify concepts, provide breaks",
              immediate_action |-> getStabilizationPhrase("clarity", random)]
        ELSE NoIndicator

detectEmotionalDistress(message, sm, random) ==
    LET distressCount == MarkerCount(message, distressMarkers)
        positiveCount == MarkerCount(message, positiveMarkers)
        emotionalIntensity == Num(distressCount * 25 - positiveCount * 10)
    IN  IF RGt(emotionalIntensity, Num(30))
           \/ RLt(sm.emotionalStability,
                  RSub(Num(100), safetyThresholds.emotionalDistress))
        THEN [type |-> "emotional_distress",
              severity |-> SeverityOf(emotionalIntensity, 75, 40),
              confidence |-> MathMin(Num(1), RDiv(emotionalIntensity, Num(100))),
              recommendation |->
                "Provide emotional support, validate experience, offer grounding",
              immediate_action |-> getStabilizationPhrase("support", random)]
        ELSE NoIndicator

detectConfusionSpiralAnyQuestion(message, sm, history, random) ==
    LET questionMarks == MatchCount(message, {"?"})
        confusionCount == MarkerCount(message, confusionMarkers)
        recent == LastN(history, 5)
        recentQuestions ==
            Cardinality({i \in 1..Len(recent) : TextMeasures(recent[i].content).question})
        spiralScore == Num(confusionCount * 20 + questionMarks * 15 + recentQuestions * 15)
    IN  IF RGt(spiralScore, Num(50))
           \/ RLt(sm.coherenceLevel, RSub(Num(100), safetyThresholds.confusionSpiral))
        THEN [type |-> "confusion_spiral",
              severity |-> SeverityOf(spiralScore, 80, 60),
              confidence |-> MathMin(Num(1), RDiv(spiralScore, Num(100))),
              recommendation |->
                "Break down concepts, provide concrete examples, check understanding",
              immediate_action |-> getStabilizationPhrase("clarity", random)]
        ELSE NoIndicator

detectConfusionSpiral(message, sm, history, random) ==
    LET questionMarks == MatchCount(message, {"?"})
        confusionCount == MarkerCount(message, confusionMarkers)
        recent == LastN(history, 5)
        recentQuestions ==
            Cardinality({i \in 1..Len(recent) : TextMeasures(recent[i].content).question})
        spiralScore == Num(confusionCount * 20 + questionMarks * 15 + recentQuestions * 10)
    IN  IF RGt(spiralScore, Num(50))
           \/ RLt(sm.coherenceLevel, RSub(Num(100), safetyThresholds.confusionSpiral))
        THEN [type |-> "confusion_spiral",
              severity |-> SeverityOf(spiralScore, 80, 60),
              confidence |-> MathMin(Num(1), RDiv(spiralScore, Num(100))),
              recommendation |->
                "Break down concepts, provide concrete examples, check understanding",
              immediate_action |-> getStabilizationPhrase("clarity", random)]
        ELSE NoIndicator

detectRealityDisconnect(message, sm, random) ==
    LET abstractRatio == calculateAbstractness(message)
        disconnectCount == MarkerCount(message, disconnectMarkers)
        disconnectScore == RAdd(Num(disconnectCount * 30), RMul(abstractRatio, Num(50)))
    IN  IF RGt(disconnectScore, Num(40))
           \/ RLt(sm.groundingScore, RSub(Num(100), safetyThresholds.realityDisconnect))
        THEN [type |-> "reality_disconnect",
              severity |-> SeverityOf(disconnectScore, 70, 50),
              confidence |-> MathMin(Num(1), RDiv(disconnectScore, Num(100))),
              recommendation |->
                "Provide grounding exercises, connect to concrete reality, practical applications",
              immediate_action |-> getStabilizationPhrase("reality", random)]
        ELSE NoIndicator

detectBreakthroughOverwhelm(metrics, sm, random) ==
    LET overwhelmScore ==
            RAdd(RAdd(RMul(OrElse(metrics.paradigmShift, Num(0)), Rat(3, 10)),
                      RMul(OrElse(metrics.emergence, Num(0)), Rat(3, 10))),
                 RMul(RSub(Num(100), OrElse(metrics.attentionCoherence, Num(100))),
                      Rat(4, 10)))
    IN  IF ~metrics.present THEN NoIndicator
        ELSE IF RGt(overwhelmScore, Num(60))
                \/ RGt(sm.overwhelmIndex, safetyThresholds.breakthroughOverwhelm)
        THEN [type |-> "breakthrough_overwhelm",
              severity |-> SeverityOf(overwhelmScore, 80, 70),
              confidence |-> MathMin(Num(1), RDiv(overwhelmScore, Num(100))),
              recommendation |->
                "Slow integration pace, celebrate insights, provide integration time",
              immediate_action |-> getStabilizationPhrase("support", random)]
        ELSE NoIndicator

\* severityOrder.indexOf(severity)
SeverityIndex(severity) ==
    CASE severity = "low" -> 0
      [] severity = "medium" -> 1
      [] severity = "high" -> 2
      [] severity = "critical" -> 3
      [] OTHER -> -1

\* The callback of indicators.reduce: current replaces highest when
\* currentIndex > highestIndex.
IsHigherOrEqual(current, highest) ==
    SeverityIndex(current.severity) >= SeverityIndex(highest.severity)

IsHigher(current, highest) ==
    SeverityIndex(current.severity) > SeverityIndex(highest.severity)

\* indicators.reduce((highest, current) => ...), no initial value given
RECURSIVE ReduceHighest(_, _)
ReduceHighest(highest, rest) ==
    IF rest = <<>> THEN highest
    ELSE ReduceHighest(IF IsHigher(Head(rest), highest) THEN Head(rest) ELSE highest,
                       Tail(rest))

\* The indicators array analyzeForCrisis fills: what the five detectors
\* return, in the order of the calls, the nulls left out.
DetectedIndicators(message, metrics, sm, history, random) ==
    SelectSeq(<<detectCognitiveOverload(message, sm, random),
                detectEmotionalDistress(message, sm, random),
                detectConfusionSpiral(message, sm, history, random),
                detectRealityDisconnect(message, sm, random),
                detectBreakthroughOverwhelm(metrics, sm, random)>>,
              LAMBDA ind : ind # NoIndicator)

\* messageHistory after the push and the bounding of analyzeForCrisis.
PushMessageKeepOldest(history, message, timestamp) ==
    LET pushed == Append(history,
                         [content |-> message, timestamp |-> timestamp, role |-> "user"])
    IN  IF Len(pushed) > MessageHistoryCap THEN SubSeq(pushed, 1, 50) ELSE pushed

PushMessage(history, message, timestamp) ==
    LET pushed == Append(history,
                         [content |-> message, timestamp |-> timestamp, role |-> "user"])
    IN  IF Len(pushed) > MessageHistoryCap THEN LastN(pushed, 50) ELSE pushed

InitialSafetyMetrics ==
    [cognitiveLoad |-> Num(50), emotionalStability |-> Num(80),
     coherenceLevel |-> Num(75), groundingScore |-> Num(85),
     overwhelmIndex |-> Num(30)]

InitCrisisVars ==
    /\ safetyMetrics = InitialSafetyMetrics
    /\ messageHistory = <<>>
    /\ interventionHistory = <<>>
    /\ now = 0
    /\ passed = <<>>
    /\ cMetrics = NoMetrics
    /\ cIndicators = <<>>
    /\ cRet = NoIndicator

\* protocols.analyzeForCrisis(message, metrics, context), called elapsed
\* milliseconds after the call before; random is the phrase Math.random picks.
analyzeForCrisis(message, metrics, elapsed, random) ==
    /\ now' = now + elapsed
    /\ messageHistory' = PushMessage(messageHistory, message, now')
    /\ safetyMetrics' = updateSafetyMetrics(message, metrics, messageHistory')
    /\ cIndicators' = DetectedIndicators(message, metrics, safetyMetrics',
                                         messageHistory', random)
    /\ cRet' = IF Len(cIndicators') > 0
               THEN ReduceHighest(Head(cIndicators'), Tail(cIndicators'))
               ELSE NoIndicator
    /\ passed' = Append(passed, message)
    /\ cMetrics' = metrics
    /\ UNCHANGED interventionHistory
    /\ UNCHANGED notCrisisVars

\* protocols.getSafetyStatus(): a copy of this.safetyMetrics
getSafetyStatus == safetyMetrics

\* protocols.reset()
reset ==
    /\ safetyMetrics' = InitialSafetyMetrics
    /\ messageHistory' = <<>>
    /\ interventionHistory' = <<>>
    /\ UNCHANGED <<now, passed, cMetrics, cIndicators, cRet>>
    /\ UNCHANGED notCrisisVars

\* protocols.needsIntervention()
needsIntervention ==
    \/ RGt(safetyMetrics.overwhelmIndex, Num(70))
    \/ RGt(safetyMetrics.cognitiveLoad, Num(85))
    \/ RLt(safetyMetrics.emotionalStability, Num(30))
    \/ RLt(safetyMetrics.coherenceLevel, Num(30))
    \/ RLt(safetyMetrics.groundingScore, Num(30))

InterventionMessages ==
    [cognitive_overload |->
        [low |-> "I notice we're covering a lot of ground. Would you like to pause and integrate?",
         medium |-> "Let's slow down a bit. These are complex ideas that deserve time to process.",
         high |-> "I sense this might be overwhelming. Let's take a break and return to solid ground.",
         critical |-> "Your wellbeing is most important. Let's pause and take care of you first."],
     emotional_distress |->
        [low |-> "I'm here with you through this exploration. How are you feeling?",
         medium |-> "These insights can be emotionally intense. Your feelings are valid and important.",
         high |-> "I notice this might be emotionally challenging. Would you like to talk about what you're experiencing?",
         critical |-> "Your emotional wellbeing matters most. Let's focus on support and stability right now."],
     confusion_spiral |->
        [low |-> "Let me help clarify. Which part would you like to explore more clearly?",
         medium |-> "I see there's some confusion. Let's untangle these thoughts one by one.",
         high |-> "Let's reset and approach this from a different angle. No rush.",
         critical |-> "Let's pause and get back to basics. Understanding will come with time."],
     reality_disconnect |->
        [low |-> "While we explore abstract ideas, let's stay connected to your lived experience.",
         medium |-> "These insights are profound. How do they relate to your everyday life?",
         high |-> "Let's ground these realizations in practical, concrete terms.",
         critical |-> "Your connection to reality is important. Let's focus on the here and now."],
     breakthrough_overwhelm |->
        [low |-> "You're experiencing significant insights. Take time to integrate them.",
         medium |-> "Breakthrough moments can be intense. Let's process this together.",
         high |-> "This is a lot to take in. There's no rush - integration takes time.",
         critical |-> "Major breakthroughs need gentle integration. Let's go slowly."]]

\* messages[indicator.type]?.[indicator.severity] || indicator.immediate_action
generateInterventionMessage(indicator) ==
    IF indicator.type \in DOMAIN InterventionMessages
       /\ indicator.severity \in DOMAIN InterventionMessages[indicator.type]
    THEN InterventionMessages[indicator.type][indicator.severity]
    ELSE indicator.immediate_action

\* protocols.generateIntervention(indicator)
generateIntervention(indicator) ==
    LET strategy ==
            [type |-> indicator.type,
             priority |-> IF indicator.severity = "critical" THEN 1
                          ELSE IF indicator.severity = "high" THEN 2
                          ELSE IF indicator.severity = "medium" THEN 3
                          ELSE 4,
             action |-> indicator.immediate_action,
             message |-> generateInterventionMessage(indicator)]
    IN  /\ interventionHistory' = Append(interventionHistory, strategy)
        /\ UNCHANGED <<safetyMetrics, messageHistory, now, passed, cMetrics,
                       cIndicators, cRet>>
        /\ UNCHANGED notCrisisVars

-----------------------------------------------------------------------------
(* lib/metrics.ts: the lexical metrics *)

Digits == "0123456789"

LetterSet ==
    UpperCaseSet \cup {CharAt(LowerCaseLetters, i) : i \in 1..Len(LowerCaseLetters)}

DigitSet == {CharAt(Digits, i) : i \in 1..Len(Digits)}

IsLetter(ch) == ch \in LetterSet

IsDigit(ch) == ch \in DigitSet

\* s.replace(/[^\p{L}\p{N}\s]/gu, " ")
RECURSIVE ReplaceOthersBySpace(_)
ReplaceOthersBySpace(s) ==
    IF Len(s) = 0 THEN ""
    ELSE IF Len(s) = 1
    THEN (IF IsLetter(s) \/ IsDigit(s) \/ s \in Whitespace THEN s ELSE " ")
    ELSE LET half == Len(s) \div 2
         IN  ReplaceOthersBySpace(SubSeq(s, 1, half))
             \o ReplaceOthersBySpace(SubSeq(s, half + 1, Len(s)))

\* s.replace(/\s+/g, " ")
\* A run of whitespace across the cut between the two halves of the text is
\* one run: of the two spaces the halves make of it, one is kept.
RECURSIVE CollapseWhitespace(_)
CollapseWhitespace(s) ==
    IF Len(s) = 0 THEN ""
    ELSE IF Len(s) = 1 THEN (IF s \in Whitespace THEN " " ELSE s)
    ELSE LET half == Len(s) \div 2
             left == CollapseWhitespace(SubSeq(s, 1, half))
             right == CollapseWhitespace(SubSeq(s, half + 1, Len(s)))
         IN  IF CharAt(s, half) \in Whitespace /\ CharAt(s, half + 1) \in Whitespace
             THEN left \o SubSeq(right, 2, Len(right))
             ELSE left \o right

\* s.trim()
Trim(s) ==
    LET inside == {i \in 1..Len(s) : CharAt(s, i) \notin Whitespace}
    IN  IF inside = {} THEN ""
        ELSE SubSeq(s, CHOOSE i \in inside : \A j \in inside : i <= j,
                       CHOOSE i \in inside : \A j \in inside : i >= j)

normalizeText(s) == Trim(CollapseWhitespace(ReplaceOthersBySpace(toLowerCase(s))))

\* s.split(separator) for a separator of one character
RECURSIVE SplitAt(_, _)
SplitAt(s, separator) ==
    IF Len(s) = 0 THEN <<"">>
    ELSE IF Len(s) = 1 THEN (IF s = separator THEN <<"", "">> ELSE <<s>>)
    ELSE LET half == Len(s) \div 2
             left == SplitAt(SubSeq(s, 1, half), separator)
             right == SplitAt(SubSeq(s, half + 1, Len(s)), separator)
         IN  SubSeq(left, 1, Len(left) - 1)
             \o <<left[Len(left)] \o Head(right)>> \o Tail(right)

\* A tokenize that keeps the case of the letters.
tokenizeKeepsCase(s) ==
    IF s = "" THEN <<>>
    ELSE SelectSeq(SplitAt(Trim(CollapseWhitespace(ReplaceOthersBySpace(s))), " "),
                   LAMBDA t : t # "")

tokenize(s) ==
    IF s = "" THEN <<>>
    ELSE SelectSeq(SplitAt(normalizeText(s), " "), LAMBDA t : t # "")

\* a / b rounded to the nearest whole number, for a >= 0 and b > 0.
RoundDiv(a, b) == (2 * a + b) \div (2 * b)

\* Logarithms are tabulated.  Log2Milli[k] is 1000 * Math.log2(k), rounded,
\* for k up to 200, and LenScorePercent[1 + n] is
\* 100 * Math.log(1 + n) / Math.log(1 + LMAX), rounded, for LMAX = 400; a
\* text scored by depthScore has at most 15 tokens.  The scores computed from
\* the tables are carried to two decimals.
Log2Milli ==
    <<0, 1000, 1585, 2000, 2322, 2585, 2807, 3000, 3170, 3322,
      3459, 3585, 3700, 3807, 3907, 4000, 4087, 4170, 4248, 4322,
      4392, 4459, 4524, 4585, 4644, 4700, 4755, 4807, 4858, 4907,
      4954, 5000, 5044, 5087, 5129, 5170, 5209, 5248, 5285, 5322,
      5358, 5392, 5426, 5459, 5492, 5524, 5555, 5585, 5615, 5644,
      5672, 5700, 5728, 5755, 5781, 5807, 5833, 5858, 5883, 5907,
      5931, 5954, 5977, 6000, 6022, 6044, 6066, 6087, 6109, 6129,
      6150, 6170, 6190, 6209, 6229, 6248, 6267, 6285, 6304, 6322,
      6340, 6358, 6375, 6392, 6409, 6426, 6443, 6459, 6476, 6492,
      6508, 6524, 6539, 6555, 6570, 6585, 6600, 6615, 6629, 6644,
      6658, 6672, 6687, 6700, 6714, 6728, 6741, 6755, 6768, 6781,
      6794, 6807, 6820, 6833, 6845, 6858, 6870, 6883, 6895, 6907,
      6919, 6931, 6943, 6954, 6966, 6977, 6989, 7000, 7011, 7022,
      7033, 7044, 7055, 7066, 7077, 7087, 7098, 7109, 7119, 7129,
      7140, 7150, 7160, 7170, 7180, 7190, 7200, 7209, 7219, 7229,
      7238, 7248, 7257, 7267, 7276, 7285, 7295, 7304, 7313, 7322,
      7331, 7340, 7349, 7358, 7366, 7375, 7384, 7392, 7401, 7409,
      7418, 7426, 7435, 7443, 7451, 7459, 7468, 7476, 7484, 7492,
      7500, 7508, 7516, 7524, 7531, 7539, 7547, 7555, 7562, 7570,
      7577, 7585, 7592, 7600, 7607, 7615, 7622, 7629, 7637, 7644>>

LenScorePercent == <<0, 12, 18, 23, 27, 30, 32, 35, 37, 38, 40, 41, 43, 44, 45, 46>>

Range(seq) == {seq[i] : i \in 1..Len(seq)}

Count(tokens, t) == Cardinality({i \in 1..Len(tokens) : tokens[i] = t})

\* H = sum over the distinct tokens of -p * log2(p), which is
\* log2(n) - (sum over the positions i of log2(count of tokens[i])) / n.
entropyNorm(tokens) ==
    LET n == Len(tokens)
        V == Cardinality(Range(tokens))
        sumLogs[i \in 0..n] ==
            IF i = 0 THEN 0 ELSE sumLogs[i - 1] + Log2Milli[Count(tokens, tokens[i])]
        nH == n * Log2Milli[n] - sumLogs[n]
        Hmax == Log2Milli[IF V > 1 THEN V ELSE 1]
    IN  IF n = 0 THEN Num(0)
        ELSE IF Hmax > 0 THEN clamp(Rat(RoundDiv(100 * nH, n * Hmax), 100))
        ELSE Num(0)

clarityTTR(tokens) ==
    LET n == Len(tokens)
        V == Cardinality(Range(tokens))
    IN  IF n = 0 THEN Num(0) ELSE clamp(Rat(V, n))

IsWordChar(ch) == IsLetter(ch) \/ IsDigit(ch) \/ ch = "_"

depthMarkers ==
    {"because", "therefore", "thus", "so that", "hence", "first", "second", "third"}

\* /\b(because|...|third)\b/gi matches at position i of text, of which lower
\* is the lower-case form.
MarkerAt(text, lower, i) ==
    /\ i = 1 \/ ~IsWordChar(CharAt(text, i - 1))
    /\ \E marker \in depthMarkers :
          LET last == i + Len(marker) - 1
          IN  /\ last <= Len(text)
              /\ SubSeq(lower, i, last) = marker
              /\ last = Len(text) \/ ~IsWordChar(CharAt(text, last + 1))

depthScore(text) ==
    LET tokens == tokenize(text)
        lenScore == Rat(LenScorePercent[1 + Len(tokens)], 100)
        markers ==
            Cardinality({i \in 1..Len(text) : MarkerAt(text, toLowerCase(text), i)})
        markerBoost == clamp(Rat(markers, 5))
    IN  clamp(RAdd(RMul(Rat(7, 10), lenScore), RMul(Rat(3, 10), markerBoost)))

\* A coherence of 0 for fewer than two tokens.
coherenceScoreShortIsZero(tokens) ==
    LET n == Len(tokens)
        bigrams == [i \in 1..(n - 1) |-> tokens[i] \o " " \o tokens[i + 1]]
        repeats == Cardinality({b \in Range(bigrams) : Count(bigrams, b) >= 2})
        repRatio == Rat(repeats, IF Len(bigrams) > 1 THEN Len(bigrams) ELSE 1)
    IN  IF n < 2 THEN Num(0) ELSE clamp(RSub(Num(1), repRatio))

\* repeats counts the bigrams that occur a second time.
coherenceScore(tokens) ==
    LET n == Len(tokens)
        bigrams == [i \in 1..(n - 1) |-> tokens[i] \o " " \o tokens[i + 1]]
        repeats == Cardinality({b \in Range(bigrams) : Count(bigrams, b) >= 2})
        repRatio == Rat(repeats, IF Len(bigrams) > 1 THEN Len(bigrams) ELSE 1)
    IN  IF n < 2 THEN Num(1) ELSE clamp(RSub(Num(1), repRatio))

\* A novelty that is the overlap with the history, not its complement.
noveltyScoreIsOverlap(current, historySet) ==
    LET curSet == Range(current)
        uni == Cardinality(curSet \cup historySet)
        inter == Cardinality(curSet \cap historySet)
        jaccard == IF uni > 0 THEN Rat(inter, uni) ELSE Num(0)
    IN  IF Len(current) = 0 THEN Num(0) ELSE clamp(jaccard)

noveltyScore(current, historySet) ==
    LET curSet == Range(current)
        uni == Cardinality(curSet \cup historySet)
        inter == Cardinality(curSet \cap historySet)
        jaccard == IF uni > 0 THEN Rat(inter, uni) ELSE Num(0)
    IN  IF Len(current) = 0 THEN Num(0) ELSE clamp(RSub(Num(1), jaccard))

WeightNames == {"entropy", "clarity", "novelty", "depth", "coherence"}

DEFAULT_WEIGHTS == [f \in WeightNames |-> Rat(20, 100)]

\* A composite that is the weighted sum, not divided by the sum of the weights.
compositeScoreNotNormalised(weights, parts) ==
    LET w == weights
        s == RAdd(RAdd(RAdd(RAdd(RMul(w.entropy, parts.entropy),
                                 RMul(w.clarity, parts.clarity)),
                            RMul(w.novelty, parts.novelty)),
                       RMul(w.depth, parts.depth)),
                  RMul(w.coherence, parts.coherence))
        sumW == RAdd(RAdd(RAdd(RAdd(w.entropy, w.clarity), w.novelty), w.depth),
                     w.coherence)
    IN  IF RGt(sumW, Num(0)) THEN clamp(s) ELSE Num(0)

\* A composite that is not clamped.
compositeScoreNotClamped(weights, parts) ==
    LET w == weights
        s == RAdd(RAdd(RAdd(RAdd(RMul(w.entropy, parts.entropy),
                                 RMul(w.clarity, parts.clarity)),
                            RMul(w.novelty, parts.novelty)),
                       RMul(w.depth, parts.depth)),
                  RMul(w.coherence, parts.coherence))
        sumW == RAdd(RAdd(RAdd(RAdd(w.entropy, w.clarity), w.novelty), w.depth),
                     w.coherence)
    IN  IF RGt(sumW, Num(0)) THEN RDiv(s, sumW) ELSE Num(0)

\* weights is the object parseWeights returned, never null.
compositeScore(weights, parts) ==
    LET w == weights
        s == RAdd(RAdd(RAdd(RAdd(RMul(w.entropy, parts.entropy),
                                 RMul(w.clarity, parts.clarity)),
                            RMul(w.novelty, parts.novelty)),
                       RMul(w.depth, parts.depth)),
                  RMul(w.coherence, parts.coherence))
        sumW == RAdd(RAdd(RAdd(RAdd(w.entropy, w.clarity), w.novelty), w.depth),
                     w.coherence)
    IN  IF RGt(sumW, Num(0)) THEN clamp(RDiv(s, sumW)) ELSE Num(0)

\* null: a value that is no number.
Null == [n |-> 0, d |-> -1]

\* An ema that blends a missing previous value as 0.
emaNullAsZero(prev, x, alpha) ==
    RAdd(RMul(alpha, x),
         RMul(RSub(Num(1), alpha), IF prev = Null \/ IsNaN(prev) THEN Num(0) ELSE prev))

\* An ema whose alpha weighs the previous value.
emaAlphaOnPrevious(prev, x, alpha) ==
    IF prev = Null \/ IsNaN(prev) THEN x
    ELSE RAdd(RMul(alpha, prev), RMul(RSub(Num(1), alpha), x))

\* An ema that adds alpha * x to the whole previous value.
emaOvershoot(prev, x, alpha) ==
    IF prev = Null \/ IsNaN(prev) THEN x
    ELSE RAdd(RMul(alpha, x), prev)

ema(prev, x, alpha) ==
    IF prev = Null \/ IsNaN(prev) THEN x
    ELSE RAdd(RMul(alpha, x), RMul(RSub(Num(1), alpha), prev))

\* process.env.METRICS_WEIGHTS: unset, the empty string, a string JSON.parse
\* rejects, or the JSON text of an object that sets the weights named in keys.
EnvUnset == [kind |-> "unset", keys |-> {}, values |-> DEFAULT_WEIGHTS]

EnvInvalid == [kind |-> "invalid", keys |-> {}, values |-> DEFAULT_WEIGHTS]

EnvCoherenceOnly ==
    [kind |-> "object", keys |-> WeightNames \ {"coherence"},
     values |-> [f \in WeightNames |-> Num(0)]]

WeightEnvs == {EnvUnset, EnvInvalid, EnvCoherenceOnly}

\* A parseWeights that does not merge the defaults into a parsed object.
parseWeightsWithoutDefaults(env) ==
    IF env.kind = "object"
    THEN [f \in WeightNames |-> IF f \in env.keys THEN env.values[f] ELSE Num(0)]
    ELSE DEFAULT_WEIGHTS

parseWeights(env) ==
    IF env.kind = "object"
    THEN [f \in WeightNames |-> IF f \in env.keys THEN env.values[f]
                                ELSE DEFAULT_WEIGHTS[f]]
    ELSE DEFAULT_WEIGHTS

\* No function of lib/metrics.ts has been called directly.
NoCall == [op |-> "none"]

-----------------------------------------------------------------------------
(* app/api/think/route.ts: the request pipeline *)

HistoryLimit == 200

\* The user messages and the replies of the model in the requests.
UserMessages == {"", "the cat"}

Replies == {"", "the cat sat", "Because it works, it works!"}

\* What fails in one request: nothing; the model call; the insert of the
\* session or of the assistant message, which the handler throws on; the
\* read of the history or of the stored EMA, which it answers with the
\* empty set and with null.  The insert of the user message and of the
\* metrics row, whose errors the handler does not read, succeed.
Faults ==
    {"none", "model", "insertSession", "insertAssistant", "readHistory", "readEma"}

\* No sessionId in the request body.
NoSession == 0

\* Math.round(x) of a finite x >= 0
MathRound(x) == (2 * x.n + x.d) \div (2 * x.d)

\* data.map(r => r.content).join(' ')
RECURSIVE JoinContents(_)
JoinContents(rows) ==
    IF rows = <<>> THEN ""
    ELSE IF Len(rows) = 1 THEN rows[1].content
    ELSE LET half == Len(rows) \div 2
         IN  JoinContents(SubSeq(rows, 1, half)) \o " "
                 \o JoinContents(SubSeq(rows, half + 1, Len(rows)))

RowsOf(table, sid) == SelectSeq(table, LAMBDA row : row.session_id = sid)

\* The token set of the first limit messages of the session, oldest first;
\* the empty set when the read fails.
getHistoryTokenSet(table, sid, limit, failed) ==
    LET rows == RowsOf(table, sid)
        data == SubSeq(rows, 1, IF Len(rows) < limit THEN Len(rows) ELSE limit)
    IN  IF failed THEN {} ELSE Range(tokenize(JoinContents(data)))

\* composite_ema of the newest metrics row of the session; null when there
\* is none or the read fails.
getPrevEMA(table, sid, failed) ==
    LET rows == RowsOf(table, sid)
    IN  IF failed \/ rows = <<>> THEN Null ELSE rows[Len(rows)].composite_ema

NoParts == [entropy |-> Num(0), clarity |-> Num(0), novelty |-> Num(0),
            depth |-> Num(0), coherence |-> Num(0)]

NoResponse == [status |-> 0, sessionId |-> NoSession, phase |-> "none",
               clarity |-> 0, depth |-> 0, entropy |-> Num(0), novelty |-> Num(0),
               coherence |-> Num(0), composite |-> Num(0), composite_ema |-> Num(0)]

ErrorResponse == [NoResponse EXCEPT !.status = 500]

\* The requests that may be in flight together.
Requests == {"first", "second"}

\* No request: nothing received, the locals of POST not yet assigned.
Idle == [pc |-> "idle", message |-> "", sessionId |-> NoSession, fault |-> "none",
         responseText |-> "", sid |-> NoSession, message_id |-> 0,
         parts |-> NoParts, composite |-> Num(0), prev |-> Null]

InitRouteVars ==
    /\ requests = [r \in Requests |-> Idle]
    /\ sessions = 0
    /\ messagesTable = <<>>
    /\ metricsTable = <<>>
    /\ posts = 0
    /\ faults = 0
    /\ response = NoResponse
    /\ rText = ""
    /\ rParts = NoParts
    /\ rPrev = Null

\* The metrics of responseText against the history token set hist.
Score(responseText, hist) ==
    LET toks == tokenize(responseText)
    IN  [entropy |-> entropyNorm(toks),
         clarity |-> clarityTTR(toks),
         novelty |-> noveltyScore(toks, hist),
         depth |-> depthScore(responseText),
         coherence |-> coherenceScore(toks)]

\* The body of the response 200 for the metrics parts, the composite and
\* the stored EMA prev.
Respond(sid, parts, composite, prev) ==
    LET compositeEma == ema(prev, composite, Rat(3, 10))
    IN  [status |-> 200, sessionId |-> sid,
         phase |-> phaseFromComposite(compositeEma),
         clarity |-> MathRound(RMul(parts.clarity, Num(100))),
         depth |-> MathRound(RMul(parts.depth, Num(100))),
         entropy |-> parts.entropy, novelty |-> parts.novelty,
         coherence |-> parts.coherence, composite |-> composite,
         composite_ema |-> compositeEma]

\* A metrics row that names the message stored before the assistant message.
MetricsRowOfEarlierMessage(sid, message_id, body) ==
    [session_id |-> sid, message_id |-> message_id - 1,
     clarity |-> body.clarity, depth |-> body.depth, entropy |-> body.entropy,
     novelty |-> body.novelty, coherence |-> body.coherence,
     composite |-> body.composite, composite_ema |-> body.composite_ema,
     phase |-> body.phase]

\* The row of the table metrics for the message message_id, whose values
\* are those of the response body.
MetricsRow(sid, message_id, body) ==
    [session_id |-> sid, message_id |-> message_id,
     clarity |-> body.clarity, depth |-> body.depth, entropy |-> body.entropy,
     novelty |-> body.novelty, coherence |-> body.coherence,
     composite |-> body.composite, composite_ema |-> body.composite_ema,
     phase |-> body.phase]

\* POST with body {message, sessionId}; responseText is the text of the
\* model's completion, and fault what fails in this request.  The model is
\* called first; then the session is created if the body names none, the
\* user message and the assistant message are stored, the reply is scored
\* against the stored messages of the session, and the metrics row is stored.
POST(message, sessionId, responseText, fault) ==
    LET sid == IF sessionId # NoSession THEN sessionId ELSE sessions + 1
        userRow == [session_id |-> sid, role |-> "user", content |-> message]
        assistantRow == [session_id |-> sid, role |-> "assistant",
                         content |-> responseText]
        withUser == Append(messagesTable, userRow)
        thrownEarly == fault = "model" \/ fault = "insertSession"
        thrown == thrownEarly \/ fault = "insertAssistant"
    IN  /\ posts' = posts + 1
        /\ faults' = IF fault = "none" THEN faults ELSE faults + 1
        /\ rText' = responseText
        /\ sessions' = IF sessionId = NoSession /\ ~thrownEarly THEN sessions + 1
                       ELSE sessions
        /\ messagesTable' = IF thrownEarly THEN messagesTable
                            ELSE IF thrown THEN withUser
                            ELSE Append(withUser, assistantRow)
        /\ rParts' = IF thrown THEN NoParts
                     ELSE Score(responseText,
                                getHistoryTokenSet(messagesTable', sid, HistoryLimit,
                                                   fault = "readHistory"))
        /\ rPrev' = IF thrown THEN Null
                    ELSE getPrevEMA(metricsTable, sid, fault = "readEma")
        /\ \E composite \in {compositeScore(parseWeights(envWeights), rParts')} :
              response' = IF thrown THEN ErrorResponse
                          ELSE Respond(sid, rParts', composite, rPrev')
        /\ metricsTable' = IF thrown THEN metricsTable
                           ELSE Append(metricsTable,
                                       MetricsRow(sid, Len(messagesTable'), response'))
        /\ UNCHANGED <<envWeights, requests>>
        /\ UNCHANGED notRouteVars

-----------------------------------------------------------------------------
(* app/api/think/route.ts: POST, one await at a time *)

\* POST suspends at each await, and the requests in flight run between one
\* await of a request and its next.  Each action below is POST from one
\* await to the next, for the request r.

\* The catch clause: the response 500.
Catch(r) ==
    /\ requests' = [requests EXCEPT ![r].pc = "done"]
    /\ posts' = posts + 1
    /\ response' = ErrorResponse
    /\ rText' = requests[r].responseText
    /\ rParts' = NoParts
    /\ rPrev' = Null
    /\ UNCHANGED <<envWeights, sessions, messagesTable, metricsTable, faults>>
    /\ UNCHANGED notRouteVars

\* Only the request r moves on, to rec.
Resume(r, rec) ==
    /\ requests' = [requests EXCEPT ![r] = rec]
    /\ UNCHANGED <<envWeights, posts, faults, response, rText, rParts, rPrev>>
    /\ UNCHANGED notRouteVars

\* await request.json(), up to the call of the model
awaitRequest(r, message, sessionId, fault) ==
    /\ requests[r].pc = "idle"
    /\ requests' = [requests EXCEPT ![r] =
                        [Idle EXCEPT !.pc = "completion", !.message = message,
                                     !.sessionId = sessionId, !.fault = fault]]
    /\ faults' = IF fault = "none" THEN faults ELSE faults + 1
    /\ UNCHANGED <<envWeights, sessions, messagesTable, metricsTable, posts,
                   response, rText, rParts, rPrev>>
    /\ UNCHANGED notRouteVars

\* await anthropic.messages.create(...)
awaitCompletion(r, responseText) ==
    /\ requests[r].pc = "completion"
    /\ IF requests[r].fault = "model"
       THEN Catch(r)
       ELSE /\ Resume(r, [requests[r] EXCEPT !.pc = "session",
                                             !.responseText = responseText])
            /\ UNCHANGED <<sessions, messagesTable, metricsTable>>

\* await getOrCreateSession(sessionId)
awaitSession(r) ==
    /\ requests[r].pc = "session"
    /\ IF requests[r].sessionId # NoSession
       THEN /\ Resume(r, [requests[r] EXCEPT !.pc = "user",
                                             !.sid = requests[r].sessionId])
            /\ UNCHANGED <<sessions, messagesTable, metricsTable>>
       ELSE IF requests[r].fault = "insertSession"
       THEN Catch(r)
       ELSE /\ sessions' = sessions + 1
            /\ Resume(r, [requests[r] EXCEPT !.pc = "user", !.sid = sessions + 1])
            /\ UNCHANGED <<messagesTable, metricsTable>>

\* await supabase.from('messages').insert({... role: 'user' ...})
awaitInsertUser(r) ==
    /\ requests[r].pc = "user"
    /\ messagesTable' = Append(messagesTable,
                               [session_id |-> requests[r].sid, role |-> "user",
                                content |-> requests[r].message])
    /\ Resume(r, [requests[r] EXCEPT !.pc = "assistant"])
    /\ UNCHANGED <<sessions, metricsTable>>

\* await supabase.from('messages').insert({... role: 'assistant' ...}),
\* if (msgErr) throw msgErr
awaitInsertAssistant(r) ==
    /\ requests[r].pc = "assistant"
    /\ IF requests[r].fault = "insertAssistant"
       THEN Catch(r)
       ELSE /\ messagesTable' = Append(messagesTable,
                                       [session_id |-> requests[r].sid,
                                        role |-> "assistant",
                                        content |-> requests[r].responseText])
            /\ Resume(r, [requests[r] EXCEPT !.pc = "history",
                                             !.message_id = Len(messagesTable')])
            /\ UNCHANGED <<sessions, metricsTable>>

\* await getHistoryTokenSet(sid), up to the composite
awaitHistoryTokenSet(r) ==
    /\ requests[r].pc = "history"
    /\ \E parts \in {Score(requests[r].responseText,
                            getHistoryTokenSet(messagesTable, requests[r].sid,
                                               HistoryLimit,
                                               requests[r].fault = "readHistory"))} :
          Resume(r, [requests[r] EXCEPT
                        !.pc = "prev", !.parts = parts,
                        !.composite = compositeScore(parseWeights(envWeights), parts)])
    /\ UNCHANGED <<sessions, messagesTable, metricsTable>>

\* await getPrevEMA(sid)
awaitPrevEMA(r) ==
    /\ requests[r].pc = "prev"
    /\ Resume(r, [requests[r] EXCEPT
                     !.pc = "metrics",
                     !.prev = getPrevEMA(metricsTable, requests[r].sid,
                                         requests[r].fault = "readEma")])
    /\ UNCHANGED <<sessions, messagesTable, metricsTable>>

\* await supabase.from('metrics').insert({...}), and the response 200
awaitInsertMetrics(r) ==
    /\ requests[r].pc = "metrics"
    /\ \E body \in {Respond(requests[r].sid, requests[r].parts,
                             requests[r].composite, requests[r].prev)} :
          /\ metricsTable' = Append(metricsTable,
                                    MetricsRow(requests[r].sid,
                                               requests[r].message_id, body))
          /\ response' = body
    /\ requests' = [requests EXCEPT ![r].pc = "done"]
    /\ posts' = posts + 1
    /\ rText' = requests[r].responseText
    /\ rParts' = requests[r].parts
    /\ rPrev' = requests[r].prev
    /\ UNCHANGED <<envWeights, sessions, messagesTable, faults>>
    /\ UNCHANGED notRouteVars

-----------------------------------------------------------------------------
(* ParadigmShiftDetector: marker detection *)

collapseMarkers ==
    <<"everything is wrong", "nothing makes sense", "my whole worldview",
      "everything I believed", "complete illusion", "fundamentally mistaken",
      "house of cards", "crumbling foundation", "built on lies",
      "questioning everything", "nothing is real", "all assumptions false">>

intensityMarkers ==
    <<"completely", "totally", "absolutely", "entirely", "utterly">>

identityFragmentationMarkers ==
    <<"who am I", "don't know myself", "identity crisis", "not who I thought",
      "fragmented", "scattered", "multiple selves", "losing myself",
      "empty inside", "hollow", "no core", "shapeshifting identity">>

realityQuestioningMarkers ==
    <<"is reality real", "simulation", "matrix", "nothing exists",
      "hallucination", "dream", "illusion", "consensus reality",
      "what if nothing", "maybe everything is", "perhaps reality">>

beliefBreakdownMarkers ==
    <<"everything I believed", "no longer believe", "faith is broken">>

existentialCrisisMarkers ==
    <<"what is the point", "why am I here", "nothing matters">>

incommensurabilityMarkers ==
    <<"does not fit", "new logic", "old model failed", "new reality">>

\* The share of the markers, as written in the lists, that the lower-cased
\* text includes.
calculateMarkerDensity(text, primary, secondary) ==
    LET lower == toLowerCase(text)
        markers == primary \o secondary
        count == Cardinality({i \in 1..Len(markers) : includes(lower, markers[i])})
    IN  IF Len(markers) > 0 THEN Rat(count, Len(markers)) ELSE Num(0)

detectWorldviewCollapse(text) ==
    calculateMarkerDensity(text, collapseMarkers, intensityMarkers)

detectIdentityFragmentation(text) ==
    calculateMarkerDensity(text, identityFragmentationMarkers, <<>>)

detectRealityQuestioning(text) ==
    calculateMarkerDensity(text, realityQuestioningMarkers, <<>>)

detectBeliefBreakdown(text) ==
    calculateMarkerDensity(text, beliefBreakdownMarkers, <<>>)

detectExistentialCrisis(text) ==
    calculateMarkerDensity(text, existentialCrisisMarkers, <<>>)

detectIncommensurability(text) ==
    calculateMarkerDensity(text, incommensurabilityMarkers, <<>>)

\* detectParadigmCrisis(message, conversationHistory); the history is not read.
detectParadigmCrisis(message) ==
    LET crisisMarkers ==
            [worldviewCollapse |-> detectWorldviewCollapse(message),
             identityFragmentation |-> detectIdentityFragmentation(message),
             realityQuestioning |-> detectRealityQuestioning(message),
             beliefSystemBreakdown |-> detectBeliefBreakdown(message),
             existentialCrisis |-> detectExistentialCrisis(message),
             paradigmIncommensurability |-> detectIncommensurability(message)]
        sum == RAdd(RAdd(RAdd(crisisMarkers.worldviewCollapse,
                              crisisMarkers.identityFragmentation),
                         RAdd(crisisMarkers.realityQuestioning,
                              crisisMarkers.beliefSystemBreakdown)),
                    RAdd(crisisMarkers.existentialCrisis,
                         crisisMarkers.paradigmIncommensurability))
    IN  [worldviewCollapse |-> crisisMarkers.worldviewCollapse,
         identityFragmentation |-> crisisMarkers.identityFragmentation,
         realityQuestioning |-> crisisMarkers.realityQuestioning,
         beliefSystemBreakdown |-> crisisMarkers.beliefSystemBreakdown,
         existentialCrisis |-> crisisMarkers.existentialCrisis,
         paradigmIncommensurability |-> crisisMarkers.paradigmIncommensurability,
         crisisLevel |-> RDiv(sum, Num(6)),
         fragmentationLevel |-> crisisMarkers.identityFragmentation]

-----------------------------------------------------------------------------
(* ConsciousnessEngine *)

uncertaintyWords == <<"maybe", "perhaps", "unsure", "not sure", "uncertain", "guess">>

paradoxWords ==
    <<"but", "however", "yet", "paradox", "contradiction", "contradictory">>

breakthroughWords == <<"suddenly", "realize", "epiphany", "breakthrough">>

\* The number of the words of a list that lower includes.
IncludedCount(lower, words) ==
    Cardinality({i \in 1..Len(words) : includes(lower, words[i])})

\* The sum over the characters chars of count * log2(count), in thousandths.
RECURSIVE SumCountLogs(_, _)
SumCountLogs(text, chars) ==
    IF chars = {} THEN 0
    ELSE LET ch == CHOOSE c \in chars : TRUE
             count == MatchCount(text, {ch})
         IN  count * Log2Milli[count] + SumCountLogs(text, chars \ {ch})

\* The Shannon entropy of the characters of text divided by 8, at most 1;
\* carried to three decimals.  The entropy is
\* log2(len) - (sum over the characters of count * log2(count)) / len.
calculateEntropy(text) ==
    LET len == Len(text)
        chars == {CharAt(text, i) : i \in 1..len}
        lenH == len * Log2Milli[len] - SumCountLogs(text, chars)
    IN  IF len = 0 THEN Num(0)
        ELSE MathMin(Rat(RoundDiv(lenH, 8 * len), 1000), Num(1))

\* An uncertainty score without the cap at 1.
uncertaintyScoreUncapped(text) ==
    RAdd(Rat(IncludedCount(toLowerCase(text), uncertaintyWords), 3),
         Rat(MatchCount(text, {"?"}), 5))

\* const uncertaintyScore of analyzeMessage
uncertaintyScore(text) ==
    LET uncertainCount == IncludedCount(toLowerCase(text), uncertaintyWords)
        questionMarks == MatchCount(text, {"?"})
    IN  MathMin(RAdd(Rat(uncertainCount, 3), Rat(questionMarks, 5)), Num(1))

\* A phase determination in which the last condition that holds decides.
PhaseDeterminationLastWins(metrics, composite) ==
    IF RGt(metrics.uncertainty, Rat(4, 10)) THEN "QUESTIONING"
    ELSE IF RGt(metrics.uncertainty, Rat(6, 10)) THEN "UNCERTAINTY"
    ELSE IF RGt(metrics.paradox, Rat(5, 10)) THEN "PARADOX"
    ELSE IF RGt(metrics.depth, Rat(7, 10)) /\ RGt(metrics.entropy, Rat(6, 10))
         THEN "INTEGRATION"
    ELSE IF RGt(composite, Rat(9, 10)) THEN "TRANSCENDENT"
    ELSE "SURFACE"

\* The phase determination of analyzeMessage
PhaseDetermination(metrics, composite) ==
    IF RGt(composite, Rat(9, 10)) THEN "TRANSCENDENT"
    ELSE IF RGt(metrics.depth, Rat(7, 10)) /\ RGt(metrics.entropy, Rat(6, 10))
         THEN "INTEGRATION"
    ELSE IF RGt(metrics.paradox, Rat(5, 10)) THEN "PARADOX"
    ELSE IF RGt(metrics.uncertainty, Rat(6, 10)) THEN "UNCERTAINTY"
    ELSE IF RGt(metrics.uncertainty, Rat(4, 10)) THEN "QUESTIONING"
    ELSE "SURFACE"

\* engine.analyzeMessage(text)
analyzeMessage(text) ==
    LET lower == toLowerCase(text)
        words == SelectSeq(Split(lower, Whitespace), LAMBDA w : w # "")
        wordCount == Len(words)
        metrics ==
            [entropy |-> calculateEntropy(text),
             uncertainty |-> uncertaintyScore(text),
             paradox |-> MathMin(Rat(IncludedCount(lower, paradoxWords), 3), Num(1)),
             depth |-> MathMin(Rat(wordCount, 20), Num(1)),
             breakthrough |->
                 MathMin(Rat(IncludedCount(lower, breakthroughWords), 2), Num(1))]
        composite ==
            RDiv(RAdd(RAdd(RAdd(RAdd(metrics.entropy, metrics.uncertainty),
                                metrics.paradox),
                           metrics.depth),
                      metrics.breakthrough),
                 Num(5))
    IN  [metrics |-> metrics, phase |-> PhaseDetermination(metrics, composite)]

-----------------------------------------------------------------------------
(* lib/metrics.ts: its functions called directly *)

\* The turns of one session in which ema is applied turn after turn.
MaxTurns == 5

\* The numbers passed to ema: the grid, a number below 0 and one above 1,
\* NaN and Infinity.
Numbers == Grid \cup {Num(-1), Num(2), NaN, Infinity}

\* The values of alpha: the bounds 0 and 1, the default 0.3, one out of
\* range and NaN.
Alphas == {Num(0), Rat(3, 10), Num(1), Num(2), NaN}

\* The raw composites of the turns of a session.
Composites == {Num(0), Rat(1, 10), Rat(9, 10), Num(1)}

\* ema(prev, x, alpha)
emaCall(prev, x, alpha) ==
    /\ called' = [op |-> "ema", prev |-> prev, now |-> x, alpha |-> alpha,
                  ret |-> ema(prev, x, alpha)]
    /\ UNCHANGED notCalled

\* One more turn of a session whose raw composite is x: ema is applied, as
\* POST applies it, to the value it returned the turn before (null in the
\* first turn) with alpha 0.3.
emaTurn(x) ==
    LET turns == IF called = NoCall THEN <<>> ELSE called.turns
        prev == IF turns = <<>> THEN Null ELSE turns[Len(turns)].ret
    IN  /\ called' = [op |-> "emaTurn",
                      turns |-> Append(turns, [prev |-> prev, now |-> x,
                                               ret |-> ema(prev, x, Rat(3, 10))])]
        /\ UNCHANGED notCalled

\* The weight vectors passed to compositeScore: the default one, one that
\* weighs coherence only, unequal ones, one with a negative weight and a
\* positive sum, and two whose sum is not positive.
WeightVectors ==
    {DEFAULT_WEIGHTS,
     [f \in WeightNames |-> IF f = "coherence" THEN Num(1) ELSE Num(0)],
     [entropy |-> Num(1), clarity |-> Num(2), novelty |-> Num(3),
      depth |-> Num(4), coherence |-> Num(5)],
     [entropy |-> Rat(1, 2), clarity |-> Num(0), novelty |-> Rat(1, 4),
      depth |-> Num(0), coherence |-> Rat(1, 4)],
     [entropy |-> Num(-1), clarity |-> Num(2), novelty |-> Num(0),
      depth |-> Num(0), coherence |-> Num(0)],
     [f \in WeightNames |-> Num(0)],
     [f \in WeightNames |-> IF f = "depth" THEN Num(-1) ELSE Num(0)]}

\* The constants a weight vector is scaled by.
Scales == {Rat(1, 2), Num(2), Num(3)}

\* The metric bundles passed to compositeScore: every bundle of the values
\* 0, 0.5 and 1, the bundles whose five metrics have one value of the grid,
\* and two bundles out of [0,1].
Bundles ==
    [WeightNames -> {Num(0), Rat(1, 2), Num(1)}]
    \cup {[f \in WeightNames |-> v] : v \in Grid \cup {Num(2), Num(-1)}}

\* compositeScore(weights, parts), and compositeScore of the same parts
\* with every weight multiplied by k.
compositeScoreCall(weights, k, parts) ==
    /\ called' = [op |-> "compositeScore", weights |-> weights, k |-> k,
                  parts |-> parts, ret |-> compositeScore(weights, parts),
                  scaled |-> compositeScore([f \in WeightNames |-> RMul(k, weights[f])],
                                            parts)]
    /\ UNCHANGED notCalled

\* The values of METRICS_WEIGHTS passed to parseWeights: unset, the empty
\* string, a string JSON.parse rejects, the JSON text of a number (whose
\* spread adds no weight), and the JSON text of an object that sets the
\* weights named in keys to 0, to 1 or to 0.5.
WeightEnvInputs ==
    {EnvUnset, EnvInvalid,
     [kind |-> "empty", keys |-> {}, values |-> DEFAULT_WEIGHTS],
     [kind |-> "number", keys |-> {}, values |-> DEFAULT_WEIGHTS]}
    \cup {[kind |-> "object", keys |-> keys, values |-> [f \in WeightNames |-> v]] :
             keys \in SUBSET WeightNames, v \in {Num(0), Num(1), Rat(1, 2)}}

\* parseWeights(env)
parseWeightsCall(env) ==
    /\ called' = [op |-> "parseWeights", env |-> env, ret |-> parseWeights(env)]
    /\ UNCHANGED notCalled

\* The texts passed to tokenize have at most MaxTextLen characters of
\* TextAlphabet: a letter in both cases, a digit, two whitespace characters
\* and a punctuation mark.
MaxTextLen == 4

TextAlphabet == {"a", "A", "7", " ", "\t", "."}

RECURSIVE TextsUpTo(_)
TextsUpTo(n) ==
    IF n = 0 THEN {""}
    ELSE LET shorter == TextsUpTo(n - 1)
         IN  shorter \cup {text \o ch : text \in shorter, ch \in TextAlphabet}

Texts == TextsUpTo(MaxTextLen)

\* tokenize(s)
tokenizeCall(s) ==
    /\ called' = [op |-> "tokenize", s |-> s, ret |-> tokenize(s)]
    /\ UNCHANGED notCalled

\* The token sequences passed to the four analyzers have at most MaxTokens
\* tokens of TokenAlphabet, and the history sets are sets of HistoryTokens.
MaxTokens == 4

TokenAlphabet == {"a", "b", "c"}

HistoryTokens == {"a", "b", "c", "d"}

RECURSIVE TokensUpTo(_)
TokensUpTo(n) ==
    IF n = 0 THEN {<<>>}
    ELSE LET shorter == TokensUpTo(n - 1)
         IN  shorter \cup {Append(tokens, t) : tokens \in shorter, t \in TokenAlphabet}

\* entropyNorm, clarityTTR, coherenceScore and noveltyScore of a token
\* sequence, the last against a history set.
analyzersCall(tokens, historySet) ==
    /\ called' = [op |-> "analyzers", tokens |-> tokens, historySet |-> historySet,
                  entropy |-> entropyNorm(tokens), clarity |-> clarityTTR(tokens),
                  coherence |-> coherenceScore(tokens),
                  novelty |-> noveltyScore(tokens, historySet)]
    /\ UNCHANGED notCalled

\* The token sequences passed to coherenceScore alone: a pattern of tokens
\* repeated up to MaxRepeats times.
MaxRepeats == 20

Patterns ==
    {<<"a", "b">>, <<"a">>, <<"a", "b", "c">>, <<"a", "a", "b">>, <<"a", "b", "c", "d">>}

RECURSIVE Repeated(_, _)
Repeated(pattern, times) ==
    IF times = 0 THEN <<>> ELSE pattern \o Repeated(pattern, times - 1)

\* coherenceScore(tokens)
coherenceScoreCall(tokens) ==
    /\ called' = [op |-> "coherenceScore", tokens |-> tokens,
                  ret |-> coherenceScore(tokens)]
    /\ UNCHANGED notCalled

\* The sessions getHistoryTokenSet is called on directly hold up to
\* MaxWindowRows messages whose contents are words of WindowContents, or
\* HistoryLimit messages "a" followed by such messages.
MaxWindowRows == 4

WindowContents == {"a", "b", "c"}

\* The values of the parameter limit: small ones and its default.
Limits == {1, 2, 3, HistoryLimit}

MessageRow(content) == [session_id |-> 1, role |-> "user", content |-> content]

RECURSIVE RowsUpTo(_)
RowsUpTo(n) ==
    IF n = 0 THEN {<<>>}
    ELSE LET shorter == RowsUpTo(n - 1)
         IN  shorter \cup {Append(rows, MessageRow(content)) :
                              rows \in shorter, content \in WindowContents}

LongSessions ==
    {[i \in 1..HistoryLimit |-> MessageRow("a")] \o rows :
        rows \in RowsUpTo(MaxWindowRows - 2) \ {<<>>}}

\* getHistoryTokenSet(sessionId, limit) on the table messages
getHistoryTokenSetCall(table, limit) ==
    /\ called' = [op |-> "getHistoryTokenSet", table |-> table, limit |-> limit,
                  ret |-> getHistoryTokenSet(table, 1, limit, FALSE)]
    /\ UNCHANGED notCalled

\* The messages passed to detectParadigmCrisis: each marker of each list as
\* written, in lower case and in upper case, the markers of each list joined
\* in each of these casings, the empty message and one without a marker.
UpperCaseOf ==
    [ch \in {LowerCaseOf[u] : u \in UpperCaseSet} |->
        CHOOSE u \in UpperCaseSet : LowerCaseOf[u] = ch]

RECURSIVE toUpperCase(_)
toUpperCase(s) ==
    IF Len(s) = 0 THEN ""
    ELSE IF Len(s) = 1 THEN (IF s \in DOMAIN UpperCaseOf THEN UpperCaseOf[s] ELSE s)
    ELSE LET half == Len(s) \div 2
         IN  toUpperCase(SubSeq(s, 1, half)) \o toUpperCase(SubSeq(s, half + 1, Len(s)))

Casings(text) == {text, toLowerCase(text), toUpperCase(text)}

RECURSIVE JoinMarkers(_)
JoinMarkers(markers) ==
    IF markers = <<>> THEN ""
    ELSE IF Len(markers) = 1 THEN markers[1]
    ELSE LET half == Len(markers) \div 2
         IN  JoinMarkers(SubSeq(markers, 1, half)) \o ", "
                 \o JoinMarkers(SubSeq(markers, half + 1, Len(markers)))

MarkerLists ==
    [worldviewCollapse |-> collapseMarkers \o intensityMarkers,
     identityFragmentation |-> identityFragmentationMarkers,
     realityQuestioning |-> realityQuestioningMarkers,
     beliefSystemBreakdown |-> beliefBreakdownMarkers,
     existentialCrisis |-> existentialCrisisMarkers,
     paradigmIncommensurability |-> incommensurabilityMarkers]

MarkerMessages ==
    {"", "the cat sat"}
    \cup UNION {UNION {Casings(MarkerLists[d][i]) : i \in 1..Len(MarkerLists[d])} :
                   d \in DOMAIN MarkerLists}
    \cup UNION {Casings(JoinMarkers(MarkerLists[d])) : d \in DOMAIN MarkerLists}

\* detector.detectParadigmCrisis(message, [])
detectParadigmCrisisCall(message) ==
    /\ called' = [op |-> "detectParadigmCrisis", message |-> message,
                  ret |-> detectParadigmCrisis(message)]
    /\ UNCHANGED notCalled

\* The messages passed to analyzeMessage: the first words of the three word
\* lists, at most MaxUncertain, MaxParadox and MaxBreakthrough of them, then
\* no other word, fifteen plain words or fifteen words of distinct
\* characters, then at most MaxQuestionMarks question marks.
MaxUncertain == 3
MaxParadox == 3
MaxBreakthrough == 2
MaxQuestionMarks == 5

QuestionMarks == "??????????"

PlainWords ==
    <<"the", "cat", "sat", "the", "cat", "sat", "the", "cat", "sat",
      "the", "cat", "sat", "the", "cat", "sat">>

VariedWords ==
    <<"abcd", "efgh", "ijkl", "mnop", "qrst", "uvwx", "yzAB", "CDEF",
      "GHIJ", "KLMN", "OPQR", "STUV", "WXYZ", "0123", "4567">>

EngineMessage(uncertain, paradox, breakthrough, others, questionMarks) ==
    JoinMarkers(SubSeq(uncertaintyWords, 1, uncertain)
                \o SubSeq(paradoxWords, 1, paradox)
                \o SubSeq(breakthroughWords, 1, breakthrough)
                \o others)
    \o SubSeq(QuestionMarks, 1, questionMarks)

\* engine.analyzeMessage(text)
analyzeMessageCall(text) ==
    /\ called' = [op |-> "analyzeMessage", text |-> text, ret |-> analyzeMessage(text)]
    /\ UNCHANGED notCalled

-----------------------------------------------------------------------------
(* Specifications *)

\* phaseFromComposite applied to the values of the grid, one after another.
InitPhase ==
    /\ InitPhaseVars /\ InitParadigmVars /\ InitCrisisVars
    /\ InitRouteVars /\ envWeights = EnvUnset /\ called = NoCall

NextPhase == \E c \in Grid : PhaseCall(c)

SpecPhase == InitPhase /\ [][NextPhase]_vars

\* One ParadigmShiftDetector and its callers.
InitParadigm ==
    /\ InitPhaseVars /\ InitParadigmVars /\ InitCrisisVars
    /\ InitRouteVars /\ envWeights = EnvUnset /\ called = NoCall

NextParadigm ==
    \/ \E c \in Levels, a \in Levels : UpdateCall(c, a)
    \/ \E c \in Levels, f \in Levels : AssessCall(c, f)
    \/ \E l \in AnomalyLists : Len(anomalyHistory) < MaxTracks /\ TrackCall(l)

SpecParadigm == InitParadigm /\ [][NextParadigm]_vars

\* One CrisisProtocols object in short sessions of arbitrary messages.
InitCrisis ==
    /\ InitPhaseVars /\ InitParadigmVars /\ InitCrisisVars
    /\ InitRouteVars /\ envWeights = EnvUnset /\ called = NoCall

NextCrisis ==
    \/ \E message \in Messages, metrics \in MetricsInputs,
          elapsed \in Deltas, random \in PhraseIndexes :
          /\ Len(passed) < MaxCalls
          /\ analyzeForCrisis(message, metrics, elapsed, random)
    \/ messageHistory # <<>> /\ reset

SpecCrisis == InitCrisis /\ [][NextCrisis]_vars

\* One CrisisProtocols object in a longer session of empty messages and
\* questions, a call every Tick milliseconds.
InitSession ==
    /\ InitPhaseVars /\ InitParadigmVars /\ InitCrisisVars
    /\ InitRouteVars /\ envWeights = EnvUnset /\ called = NoCall

NextSession ==
    \/ \E message \in SessionMessages, metrics \in SessionMetrics,
          random \in PhraseIndexes :
          /\ Len(passed) < MaxSessionCalls
          /\ analyzeForCrisis(message, metrics, Tick, random)
    \/ messageHistory # <<>> /\ reset

SpecSession == InitSession /\ [][NextSession]_vars

\* One CrisisProtocols object called until its history overflows: empty
\* messages and a few questions, no metrics, a call every Tick milliseconds.
Marked(messages) == Cardinality({i \in 1..Len(messages) : messages[i] # ""})

InitHistory ==
    /\ InitPhaseVars /\ InitParadigmVars /\ InitCrisisVars
    /\ InitRouteVars /\ envWeights = EnvUnset /\ called = NoCall

NextHistory ==
    \E message \in SessionMessages, random \in PhraseIndexes :
        /\ Len(passed) < MaxHistoryCalls
        /\ message # "" => Marked(passed) < MaxMarked
        /\ analyzeForCrisis(message, NoMetrics, Tick, random)

SpecHistory == InitHistory /\ [][NextHistory]_vars

\* The route under one setting of METRICS_WEIGHTS, its requests handled one
\* after another; a request names no session or one the route created.
InitRoute ==
    /\ InitPhaseVars /\ InitParadigmVars /\ InitCrisisVars
    /\ InitRouteVars /\ envWeights \in WeightEnvs /\ called = NoCall

NextRoute ==
    \E message \in UserMessages, sessionId \in {NoSession} \cup 1..sessions,
       responseText \in Replies, fault \in Faults :
        /\ posts < MaxPosts
        /\ fault # "none" => faults < MaxFaults
        /\ fault = "insertSession" => sessionId = NoSession
        /\ POST(message, sessionId, responseText, fault)

SpecRoute == InitRoute /\ [][NextRoute]_vars

\* The functions of lib/metrics.ts, each called once on arguments of the
\* input sets.
InitMetrics ==
    /\ InitPhaseVars /\ InitParadigmVars /\ InitCrisisVars
    /\ InitRouteVars /\ envWeights = EnvUnset /\ called = NoCall

NextMetrics ==
    \/ \E prev \in Numbers \cup {Null}, x \in Numbers, alpha \in Alphas :
          called = NoCall /\ emaCall(prev, x, alpha)
    \/ \E weights \in WeightVectors, k \in Scales, parts \in Bundles :
          called = NoCall /\ compositeScoreCall(weights, k, parts)
    \/ \E env \in WeightEnvInputs :
          called = NoCall /\ parseWeightsCall(env)

SpecMetrics == InitMetrics /\ [][NextMetrics]_vars

\* The sessions whose id a response has carried to a client: a metrics row
\* is stored just before the response 200 is sent.
AnsweredSessions == {metricsTable[i].session_id : i \in DOMAIN metricsTable}

\* A first request, handled alone, opens a session; then the requests of
\* Requests arrive, each for a new session or for one a client has been
\* told of, and run interleaved at their awaits.
NextConcurrent ==
    \/ sessions = 0 /\ POST("the cat", NoSession, "the cat sat", "none")
    \/ \E r \in Requests, message \in {"the cat"},
          sessionId \in {NoSession} \cup AnsweredSessions, fault \in Faults :
          /\ sessions > 0
          /\ fault # "none" => faults < MaxFaults
          /\ fault = "insertSession" => sessionId = NoSession
          /\ awaitRequest(r, message, sessionId, fault)
    \/ \E r \in Requests, responseText \in Replies : awaitCompletion(r, responseText)
    \/ \E r \in Requests : awaitSession(r)
    \/ \E r \in Requests : awaitInsertUser(r)
    \/ \E r \in Requests : awaitInsertAssistant(r)
    \/ \E r \in Requests : awaitHistoryTokenSet(r)
    \/ \E r \in Requests : awaitPrevEMA(r)
    \/ \E r \in Requests : awaitInsertMetrics(r)

SpecConcurrent == InitMetrics /\ [][NextConcurrent]_vars

\* The functions of lib/metrics.ts that read text, each called once on
\* arguments of the input sets.
NextLexical ==
    \/ \E s \in Texts :
          called = NoCall /\ tokenizeCall(s)
    \/ \E tokens \in TokensUpTo(MaxTokens), historySet \in SUBSET HistoryTokens :
          called = NoCall /\ analyzersCall(tokens, historySet)
    \/ \E pattern \in Patterns, times \in 1..MaxRepeats :
          called = NoCall /\ coherenceScoreCall(Repeated(pattern, times))

SpecLexical == InitMetrics /\ [][NextLexical]_vars

\* The smoothing of the composite: ema called once on arguments of the
\* input sets, or applied turn after turn in one session, or applied by the
\* requests of the route.
NextSmoothing ==
    \/ \E prev \in Numbers \cup {Null}, x \in Numbers, alpha \in Alphas :
          called = NoCall /\ posts = 0 /\ emaCall(prev, x, alpha)
    \/ \E x \in Composites :
          /\ posts = 0
          /\ called = NoCall \/ called.op = "emaTurn"
          /\ called # NoCall => Len(called.turns) < MaxTurns
          /\ emaTurn(x)
    \/ called = NoCall /\ NextRoute

SpecSmoothing == InitRoute /\ [][NextSmoothing]_vars

\* getHistoryTokenSet called on sessions shorter and longer than its limit.
NextWindow ==
    \/ \E table \in RowsUpTo(MaxWindowRows), limit \in Limits :
          called = NoCall /\ getHistoryTokenSetCall(table, limit)
    \/ \E table \in LongSessions :
          called = NoCall /\ getHistoryTokenSetCall(table, HistoryLimit)

SpecWindow == InitMetrics /\ [][NextWindow]_vars

\* One ParadigmShiftDetector whose detectParadigmCrisis is called on messages
\* that hold its markers.
NextMarkers ==
    \/ \E message \in MarkerMessages :
          called = NoCall /\ detectParadigmCrisisCall(message)

SpecMarkers == InitMetrics /\ [][NextMarkers]_vars

\* One ConsciousnessEngine whose analyzeMessage is called on composed messages.
NextEngine ==
    \/ \E uncertain \in 0..MaxUncertain, paradox \in 0..MaxParadox,
          breakthrough \in 0..MaxBreakthrough,
          others \in {<<>>, PlainWords, VariedWords},
          questionMarks \in 0..MaxQuestionMarks :
          /\ called = NoCall
          /\ analyzeMessageCall(EngineMessage(uncertain, paradox, breakthrough,
                                              others, questionMarks))

SpecEngine == InitMetrics /\ [][NextEngine]_vars

\* One CrisisProtocols object called on messages with and without disconnect
\* markers, abstract words and concrete words, a call every Tick
\* milliseconds; an intervention is generated for an indicator the last call
\* detected.
NextGrounding ==
    \/ \E message \in Messages \cup GroundingMessages, metrics \in MetricsInputs :
          /\ Len(passed) < MaxCalls
          /\ analyzeForCrisis(message, metrics, Tick, 1)
    \/ \E i \in 1..Len(cIndicators) :
          /\ Len(interventionHistory) < MaxInterventions
          /\ generateIntervention(cIndicators[i])
    \/ messageHistory # <<>> /\ reset

SpecGrounding == InitCrisis /\ [][NextGrounding]_vars

-----------------------------------------------------------------------------
(* C1 *)

PhaseRank(p) ==
    CASE p = "SURFACE" -> 1
      [] p = "EXPLORING" -> 2
      [] p = "DEEP" -> 3
      [] p = "INTEGRATION" -> 4
      [] p = "BREAKTHROUGH" -> 5

\* C1: phaseFromComposite maps a composite c in [0,1] to exactly one phase:
\* SURFACE iff c < 0.30, EXPLORING iff 0.30 <= c < 0.50, DEEP iff
\* 0.50 <= c < 0.70, INTEGRATION iff 0.70 <= c < 0.85, BREAKTHROUGH iff
\* c >= 0.85 (a boundary value belongs to the upper band); and of two calls,
\* the one with the smaller argument does not return the later phase.
C1_PhaseBands ==
    phaseRet # "none" =>
        /\ phaseRet \in Phases
        /\ phaseRet = "SURFACE" <=> 100 * phaseArg.n < 30 * phaseArg.d
        /\ phaseRet = "EXPLORING" <=>
              (100 * phaseArg.n >= 30 * phaseArg.d /\ 100 * phaseArg.n < 50 * phaseArg.d)
        /\ phaseRet = "DEEP" <=>
              (100 * phaseArg.n >= 50 * phaseArg.d /\ 100 * phaseArg.n < 70 * phaseArg.d)
        /\ phaseRet = "INTEGRATION" <=>
              (100 * phaseArg.n >= 70 * phaseArg.d /\ 100 * phaseArg.n < 85 * phaseArg.d)
        /\ phaseRet = "BREAKTHROUGH" <=> 100 * phaseArg.n >= 85 * phaseArg.d
        /\ (phaseRetPrev # "none" /\ phaseArgPrev.n * phaseArg.d <= phaseArg.n * phaseArgPrev.d)
              => PhaseRank(phaseRetPrev) <= PhaseRank(phaseRet)

\* A call at the boundary 0.30 exactly, after a call just below it.
C1_Witness ==
    /\ phaseArg = Rat(30, 100)
    /\ phaseRet = "EXPLORING"
    /\ phaseRetPrev = "SURFACE"
    /\ phaseArgPrev = Rat(25, 100)

-----------------------------------------------------------------------------
(* C2 *)

\* Twice the composite of the last call, as numerator and denominator:
\* crisisLevel + anomalyAccumulation = PairSumN / PairSumD.
PairSumN == pArgs[1].n * pArgs[2].d + pArgs[2].n * pArgs[1].d
PairSumD == pArgs[1].d * pArgs[2].d

\* C2: after an updateParadigmState call, whatever the calls and the state
\* before it, paradigmState is the band of composite = (crisisLevel +
\* anomalyAccumulation) / 2 of that call: NORMAL_SCIENCE if < 0.15,
\* ANOMALY_AWARENESS if < 0.35, CRISIS_EMERGENCE if < 0.55, PARADIGM_REVOLUTION
\* if < 0.75, TRANSITION_CHAOS if < 0.90, else NEW_PARADIGM_FORMATION.
C2_ParadigmStateIsBandOfLastPair ==
    pOp = "updateParadigmState" =>
        paradigmState =
            IF 100 * PairSumN < 15 * 2 * PairSumD THEN "NORMAL_SCIENCE"
            ELSE IF 100 * PairSumN < 35 * 2 * PairSumD THEN "ANOMALY_AWARENESS"
            ELSE IF 100 * PairSumN < 55 * 2 * PairSumD THEN "CRISIS_EMERGENCE"
            ELSE IF 100 * PairSumN < 75 * 2 * PairSumD THEN "PARADIGM_REVOLUTION"
            ELSE IF 100 * PairSumN < 90 * 2 * PairSumD THEN "TRANSITION_CHAOS"
            ELSE "NEW_PARADIGM_FORMATION"

\* The pair (0.3, 0), whose composite is the boundary 0.15, passed to a
\* detector that was in NEW_PARADIGM_FORMATION.
C2_Witness ==
    /\ pOp = "updateParadigmState"
    /\ pArgs = <<Rat(3, 10), Num(0)>>
    /\ paradigmBefore = "NEW_PARADIGM_FORMATION"
    /\ paradigmState = "ANOMALY_AWARENESS"

-----------------------------------------------------------------------------
(* C3 *)

\* C3: a new detector is in NORMAL_SCIENCE, and in every state of the
\* detector, for each of the six paradigm states there are arguments in [0,1]
\* with which one updateParadigmState call enters it.
C3_NoTerminalParadigmState ==
    /\ pOp = "none" => paradigmState = "NORMAL_SCIENCE"
    /\ \A target \in ParadigmStates :
          \E c \in Levels, a \in Levels : updateParadigmState(c, a) = target

\* NORMAL_SCIENCE entered again from NEW_PARADIGM_FORMATION.
C3_Witness ==
    /\ pOp = "updateParadigmState"
    /\ paradigmBefore = "NEW_PARADIGM_FORMATION"
    /\ paradigmState = "NORMAL_SCIENCE"

-----------------------------------------------------------------------------
(* C4 *)

\* C4: a call assessPsychologicalSafety(crisisLevel, fragmentationLevel)
\* returns HIGH/IMMEDIATE_SUPPORT iff crisisLevel > 0.8 and
\* fragmentationLevel > 0.7, otherwise MODERATE/ENHANCED_SUPPORT iff
\* crisisLevel > 0.6, otherwise LOW/STANDARD_SUPPORT, and leaves paradigmState
\* and anomalyHistory as they were.
C4_SafetyTiers ==
    [][pOp' = "assessPsychologicalSafety" =>
        LET c == pArgs'[1]
            f == pArgs'[2]
            r == pRet'.assessment
            high == 10 * c.n > 8 * c.d /\ 10 * f.n > 7 * f.d
            moderate == ~high /\ 10 * c.n > 6 * c.d
        IN  /\ r.riskLevel \in {"LOW", "MODERATE", "HIGH"}
            /\ r.riskLevel = "HIGH" <=> high
            /\ r.riskLevel = "MODERATE" <=> moderate
            /\ r.riskLevel = "LOW" <=> (~high /\ ~moderate)
            /\ r.intervention =
                  CASE r.riskLevel = "HIGH" -> "IMMEDIATE_SUPPORT"
                    [] r.riskLevel = "MODERATE" -> "ENHANCED_SUPPORT"
                    [] r.riskLevel = "LOW" -> "STANDARD_SUPPORT"
            /\ paradigmState' = paradigmState
            /\ anomalyHistory' = anomalyHistory]_vars

\* crisisLevel 0.9 with fragmentationLevel exactly 0.7 is MODERATE; the
\* detector has a state and a history the call could have changed.
C4_Witness ==
    /\ pOp = "assessPsychologicalSafety"
    /\ pArgs = <<Rat(9, 10), Rat(7, 10)>>
    /\ pRet.assessment.riskLevel = "MODERATE"
    /\ pRet.assessment.intervention = "ENHANCED_SUPPORT"
    /\ paradigmState = "TRANSITION_CHAOS"
    /\ anomalyHistory # <<>>


-----------------------------------------------------------------------------
(* C5 *)

\* The place of a category in the order cognitive_overload > emotional_distress
\* > confusion_spiral > reality_disconnect > breakthrough_overwhelm.
CategoryRank(type) ==
    CASE type = "cognitive_overload" -> 1
      [] type = "emotional_distress" -> 2
      [] type = "confusion_spiral" -> 3
      [] type = "reality_disconnect" -> 4
      [] type = "breakthrough_overwhelm" -> 5

\* C5: analyzeForCrisis returns null when no category fired and otherwise one
\* of the fired indicators, whose severity no fired indicator exceeds and
\* which, among the fired indicators of that severity, is the first in the
\* category order, whatever phrase Math.random drew.
C5_HighestSeverityFirstCategory ==
    /\ cRet = NoIndicator <=> cIndicators = <<>>
    /\ cIndicators # <<>> =>
          /\ \E i \in 1..Len(cIndicators) : cIndicators[i] = cRet
          /\ \A i \in 1..Len(cIndicators) :
                /\ SeverityIndex(cIndicators[i].severity) <= SeverityIndex(cRet.severity)
                /\ cIndicators[i].severity = cRet.severity
                      => CategoryRank(cRet.type) <= CategoryRank(cIndicators[i].type)

\* Two categories fired with the same, maximal severity and another with a
\* lower one; the earlier category of the two was returned.
C5_Witness ==
    /\ \E i, j, k \in 1..Len(cIndicators) :
          /\ cIndicators[i] = cRet
          /\ cIndicators[j].severity = cRet.severity
          /\ CategoryRank(cIndicators[j].type) > CategoryRank(cRet.type)
          /\ SeverityIndex(cIndicators[k].severity) < SeverityIndex(cRet.severity)
    /\ cRet.type # "cognitive_overload"

-----------------------------------------------------------------------------
(* C6 *)

\* C6: after n analyzeForCrisis calls on one object, messageHistory holds
\* min(n, 50) entries, and they are the last min(n, 50) messages passed in, in
\* the order of the calls, each with the time of its call and the role user.
C6_HistoryIsMostRecentFifty ==
    LET n == Len(passed)
        kept == IF n < 50 THEN n ELSE 50
    IN  /\ Len(messageHistory) = kept
        /\ \A i \in 1..kept :
              messageHistory[i] = [content |-> passed[n - kept + i],
                                   timestamp |-> Tick * (n - kept + i),
                                   role |-> "user"]

\* Fifty-two calls, the second of them with the question: the question and
\* the message before it are no longer in the history.
C6_Witness ==
    /\ Len(passed) = 52
    /\ passed[2] = "why?"
    /\ Len(messageHistory) = 50
    /\ messageHistory[1].timestamp = 3 * Tick
    /\ \A i \in 1..50 : messageHistory[i].content = ""

-----------------------------------------------------------------------------
(* C7 *)

InRange(x, low, high) == RGe(x, Num(low)) /\ RLe(x, Num(high))

\* C7: after any sequence of analyzeForCrisis calls, each of the five safety
\* metrics getSafetyStatus returns is a number in [0,100].
C7_SafetyMetricsInRange ==
    /\ InRange(getSafetyStatus.cognitiveLoad, 0, 100)
    /\ InRange(getSafetyStatus.emotionalStability, 0, 100)
    /\ InRange(getSafetyStatus.coherenceLevel, 0, 100)
    /\ InRange(getSafetyStatus.groundingScore, 0, 100)
    /\ InRange(getSafetyStatus.overwhelmIndex, 0, 100)

-----------------------------------------------------------------------------
(* C8 *)

\* C8: every indicator analyzeForCrisis returns has a severity among low,
\* medium, high and critical and a confidence in [0,1].
C8_IndicatorSeverityAndConfidence ==
    cRet # NoIndicator =>
        /\ cRet.severity \in {"low", "medium", "high", "critical"}
        /\ InRange(cRet.confidence, 0, 1)

-----------------------------------------------------------------------------
(* C9 *)

Last(seq) == seq[Len(seq)]

\* 10 * (paradigmShift * 0.3 + emergence * 0.3 + (100 - attentionCoherence) * 0.4)
\* for whole-numbered metrics, a missing or zero attentionCoherence read as 100.
TenfoldOverwhelmScore(metrics) ==
    3 * metrics.paradigmShift.n + 3 * metrics.emergence.n
    + 4 * (100 - (IF metrics.attentionCoherence.n = 0 THEN 100
                  ELSE metrics.attentionCoherence.n))

-----------------------------------------------------------------------------
(* C10 *)

\* The metrics of the empty text: entropy, clarity, novelty and depth 0 and
\* coherence 1.
EmptyTextParts ==
    [entropy |-> Num(0), clarity |-> Num(0), novelty |-> Num(0),
     depth |-> Num(0), coherence |-> Num(1)]

\* C10 as stated: a request whose scored text is empty yields entropy 0,
\* clarity 0, novelty 0, depth 0 and coherence 1, and reports the phase
\* SURFACE.
C10_EmptyTextIsSurface ==
    (response.status = 200 /\ rText = "") =>
        /\ rParts = EmptyTextParts
        /\ response.phase = "SURFACE"

\* C10, amended: a request whose scored text is empty yields entropy 0,
\* clarity 0, novelty 0, depth 0 and coherence 1; under the default weights
\* its composite is 0.2, and the phase it reports is SURFACE when no stored
\* EMA was read for the session and otherwise the phase of 0.3 * 0.2 + 0.7 *
\* stored EMA, which is SURFACE only for a stored EMA below 12/35.
C10_EmptyTextIsSurfaceOnColdStart ==
    (response.status = 200 /\ rText = "") =>
        /\ rParts = EmptyTextParts
        /\ response.entropy = Num(0) /\ response.clarity = 0
        /\ response.novelty = Num(0) /\ response.depth = 0
        /\ response.coherence = Num(1)
        /\ parseWeights(envWeights) = DEFAULT_WEIGHTS =>
              /\ response.composite = Rat(2, 10)
              /\ rPrev = Null => response.phase = "SURFACE"
              /\ rPrev # Null =>
                    /\ response.composite_ema
                          = RAdd(Rat(6, 100), RMul(Rat(7, 10), rPrev))
                    /\ response.phase = phaseFromComposite(response.composite_ema)
                    /\ response.phase = "SURFACE" <=> 35 * rPrev.n < 12 * rPrev.d

\* The first request of a session, after another session's request: the
\* reply is empty, the weights are the default ones, and the phase is SURFACE.
C10_Witness ==
    /\ response.status = 200
    /\ rText = ""
    /\ parseWeights(envWeights) = DEFAULT_WEIGHTS
    /\ rPrev = Null
    /\ response.sessionId = 2
    /\ metricsTable # <<>>
    /\ response.phase = "SURFACE"
    /\ response.composite_ema = Rat(2, 10)

-----------------------------------------------------------------------------
(* C11 *)

\* The composite_ema of the metrics row before the newest one of the
\* session of the last response: the value stored when the last request
\* began (null when the session had no row).
StoredEma ==
    LET rows == RowsOf(metricsTable, response.sessionId)
    IN  IF Len(rows) < 2 THEN Null ELSE rows[Len(rows) - 1].composite_ema

\* C11: ema(prev, x, alpha) returns x whenever prev is null or NaN, whatever
\* x and alpha are; the first turn of a smoothed session returns its raw
\* composite, and a request of the route whose session had no metrics row
\* answers with composite_ema equal to composite.
C11_EmaColdStartReturnsCurrent ==
    /\ (called.op = "ema" /\ (called.prev = Null \/ IsNaN(called.prev))) =>
          called.ret = called.now
    /\ called.op = "emaTurn" => called.turns[1].ret = called.turns[1].now
    /\ (response.status = 200 /\ StoredEma = Null) =>
          /\ rPrev = Null
          /\ response.composite_ema = response.composite

\* The second request opens a second session, after the first session got
\* its metrics row: the smoothed value of the answer is its raw composite,
\* which is not 0.
C11_Witness ==
    /\ response.status = 200
    /\ response.sessionId = 2
    /\ Len(metricsTable) = 2
    /\ StoredEma = Null
    /\ RGt(response.composite, Num(0))
    /\ response.composite_ema = response.composite

-----------------------------------------------------------------------------
(* C12 *)

\* C12 as stated: for every previous value that is not null and every
\* current value, ema with alpha 0 returns the previous value and ema with
\* alpha 1 returns the current value.
C12_EmaAlphaBounds ==
    (called.op = "ema" /\ called.prev # Null) =>
        /\ called.alpha = Num(0) => called.ret = called.prev
        /\ called.alpha = Num(1) => called.ret = called.now

\* C12, amended: for every finite previous value and every finite current
\* value, ema with alpha 0 returns the previous value and ema with alpha 1
\* returns the current value.
C12_EmaAlphaBoundsOnFiniteNumbers ==
    (called.op = "ema" /\ IsFinite(called.prev) /\ IsFinite(called.now)) =>
        /\ called.alpha = Num(0) => called.ret = called.prev
        /\ called.alpha = Num(1) => called.ret = called.now

\* ema(0.25, 0.75, 0) returned 0.25.
C12_Witness ==
    /\ called.op = "ema"
    /\ called.prev = Rat(1, 4) /\ called.now = Rat(3, 4) /\ called.alpha = Num(0)
    /\ called.ret = Rat(1, 4)

-----------------------------------------------------------------------------
(* C13 *)

\* x < y for two finite numbers.
Less(x, y) == RSub(x, y).n < 0

\* r is the raw value x when there is no previous value p or p is x, and
\* otherwise lies strictly between p and x.
Between(p, x, r) ==
    IF p = Null \/ p = x THEN r = x
    ELSE \/ Less(p, r) /\ Less(r, x)
         \/ Less(x, r) /\ Less(r, p)

InUnitInterval(x) == IsFinite(x) /\ ~Less(x, Num(0)) /\ ~Less(Num(1), x)

ScenarioD == <<Rat(1, 10), Rat(1, 10), Rat(9, 10), Rat(9, 10), Rat(9, 10)>>

\* The smoothed values of the turns of a session follow scenario D as far
\* as the session goes: they never decrease, and from turn 3 on they
\* increase and stay below 0.9.
FollowsScenarioD(turns) ==
    (Len(turns) <= Len(ScenarioD) /\ \A i \in 1..Len(turns) : turns[i].now = ScenarioD[i]) =>
        \A i \in 1..Len(turns) :
            /\ i > 1 => ~Less(turns[i].ret, turns[i - 1].ret)
            /\ i >= 3 => /\ Less(turns[i].ret, Rat(9, 10))
                         /\ Less(turns[i - 1].ret, turns[i].ret)

\* In every turn of a smoothed session the value is between the value of
\* the turn before and the raw composite, and in [0,1].
TurnsAreSmooth(turns) ==
    \A i \in 1..Len(turns) :
        /\ Between(turns[i].prev, turns[i].now, turns[i].ret)
        /\ InUnitInterval(turns[i].ret)

-----------------------------------------------------------------------------
(* C14 *)

\* The sum of the values x[f] over the names f of a set of weight names.
RECURSIVE SumOver(_, _)
SumOver(x, names) ==
    IF names = {} THEN Num(0)
    ELSE LET f == CHOOSE g \in names : TRUE
         IN  RAdd(x[f], SumOver(x, names \ {f}))

WeightSum(weights) == SumOver(weights, WeightNames)

\* C14: for every metric bundle, every weight vector whose sum is positive
\* and every constant k > 0, compositeScore with the weights multiplied by k
\* returns what it returns with the weights themselves.
C14_CompositeIsScaleInvariant ==
    (called.op = "compositeScore" /\ Less(Num(0), WeightSum(called.weights))
                                  /\ Less(Num(0), called.k)) =>
        called.scaled = called.ret

\* Unequal weights multiplied by 3, on a bundle of unequal metrics whose
\* composite is neither 0 nor 1.
C14_Witness ==
    /\ called.op = "compositeScore"
    /\ called.k = Num(3)
    /\ called.weights.entropy = Num(1) /\ called.weights.coherence = Num(5)
    /\ called.parts.entropy = Num(1) /\ called.parts.coherence = Rat(1, 2)
    /\ Less(Num(0), called.ret) /\ Less(called.ret, Num(1))
    /\ called.scaled = called.ret

-----------------------------------------------------------------------------
(* C15 *)

\* The weighted sum of the five metrics divided by the sum of the weights.
WeightedMean(weights, parts) ==
    RDiv(SumOver([f \in WeightNames |-> RMul(weights[f], parts[f])], WeightNames),
         WeightSum(weights))

\* C15: compositeScore returns the weighted mean of the five metrics
\* clamped to [0,1], and 0 when the sum of the weights is not positive; for
\* metrics in [0,1] and weights that are not negative the result is in
\* [0,1], and it is v when the five metrics are v and the sum of the weights
\* is positive.
C15_CompositeIsClampedWeightedMean ==
    called.op = "compositeScore" =>
        LET w == called.weights
            m == called.parts
            positive == Less(Num(0), WeightSum(w))
            regular == /\ \A f \in WeightNames : InUnitInterval(m[f])
                       /\ \A f \in WeightNames : ~Less(w[f], Num(0))
        IN  /\ positive => called.ret = clamp(WeightedMean(w, m))
            /\ ~positive => called.ret = Num(0)
            /\ regular => InUnitInterval(called.ret)
            /\ (regular /\ positive) =>
                  \A v \in Grid : (\A f \in WeightNames : m[f] = v) => called.ret = v

\* The default weights on the bundle whose five metrics are 0.35.
C15_Witness ==
    /\ called.op = "compositeScore"
    /\ called.weights = DEFAULT_WEIGHTS
    /\ \A f \in WeightNames : called.parts[f] = Rat(7, 20)
    /\ called.ret = Rat(7, 20)

-----------------------------------------------------------------------------
(* C16 *)

\* C16: parseWeights returns a weight vector for every configuration: the
\* default vector, 0.2 for each of the five weights, when the configuration
\* is unset, empty or not parsable, and for a parsable object the weights
\* it sets with the defaults for the others.
C16_ParseWeightsFallsBackToDefaults ==
    called.op = "parseWeights" =>
        /\ DOMAIN called.ret = WeightNames
        /\ called.env.kind \in {"unset", "empty", "invalid"} =>
              \A f \in WeightNames : called.ret[f] = Rat(2, 10)
        /\ called.env.kind = "object" =>
              \A f \in WeightNames :
                  called.ret[f] = IF f \in called.env.keys THEN called.env.values[f]
                                  ELSE Rat(2, 10)

\* An object that sets entropy and depth to 1: the other three weights are 0.2.
C16_Witness ==
    /\ called.op = "parseWeights"
    /\ called.env.kind = "object"
    /\ called.env.keys = {"entropy", "depth"}
    /\ called.ret.entropy = Num(1) /\ called.ret.depth = Num(1)
    /\ called.ret.clarity = Rat(2, 10) /\ called.ret.novelty = Rat(2, 10)
    /\ called.ret.coherence = Rat(2, 10)

-----------------------------------------------------------------------------
(* C17 *)

\* The character i of text is a letter or a digit.
IsAlnumAt(text, i) == IsLetter(CharAt(text, i)) \/ IsDigit(CharAt(text, i))

\* The positions at which a word of text begins: a letter or digit that
\* follows no letter or digit.
WordStarts(text) ==
    {i \in 1..Len(text) : IsAlnumAt(text, i) /\ (i = 1 \/ ~IsAlnumAt(text, i - 1))}

\* The word of text that begins at position i.
WordAt(text, i) ==
    SubSeq(text, i,
           CHOOSE e \in i..Len(text) :
               /\ \A j \in i..e : IsAlnumAt(text, j)
               /\ e = Len(text) \/ ~IsAlnumAt(text, e + 1))

\* C17: tokenize returns the empty sequence for an empty text and for a
\* text of whitespace only; every token it returns is a non-empty string of
\* lower-case letters and digits; and the tokens are the words of the text
\* in lower case, in the order of the text, a word that occurs twice being
\* returned twice.
C17_TokenizeReturnsLowerCaseWordsInOrder ==
    called.op = "tokenize" =>
        LET text == called.s
            tokens == called.ret
            starts == WordStarts(text)
        IN  /\ (\A i \in 1..Len(text) : CharAt(text, i) \in Whitespace) => tokens = <<>>
            /\ \A k \in 1..Len(tokens) :
                  /\ tokens[k] # ""
                  /\ \A j \in 1..Len(tokens[k]) :
                        \/ \E c \in 1..Len(LowerCaseLetters) :
                              CharAt(tokens[k], j) = CharAt(LowerCaseLetters, c)
                        \/ CharAt(tokens[k], j) \in DigitSet
            /\ Len(tokens) = Cardinality(starts)
            /\ \A i \in starts :
                  tokens[Cardinality({j \in starts : j <= i})]
                      = toLowerCase(WordAt(text, i))

\* A text of two words that differ in case only, with a tab between them.
C17_Witness ==
    /\ called.op = "tokenize"
    /\ called.s = "A\ta7"
    /\ called.ret = <<"a", "a7">>

-----------------------------------------------------------------------------
(* C18 *)

\* The number of bigrams of tokens that repeat an earlier bigram.
RepeatOccurrences(tokens) ==
    Cardinality({i \in 2..(Len(tokens) - 1) :
                    \E j \in 1..(i - 1) :
                        tokens[j] = tokens[i] /\ tokens[j + 1] = tokens[i + 1]})

\* C18: coherenceScore is 1 minus the number of bigrams that repeat an
\* earlier bigram divided by the number of bigrams, and the sequence
\* a b a b ... of 40 tokens, which repeats one bigram 20 times, scores
\* below 0.1.
C18_RepeatedBigramScoresNearZero ==
    (called.op = "coherenceScore" /\ Len(called.tokens) >= 2) =>
        /\ called.ret = RSub(Num(1), Rat(RepeatOccurrences(called.tokens),
                                         Len(called.tokens) - 1))
        /\ called.tokens = Repeated(<<"a", "b">>, 20) => Less(called.ret, Rat(1, 10))

-----------------------------------------------------------------------------
(* C19 *)

AllDistinct(tokens) == Cardinality(Range(tokens)) = Len(tokens)

\* What C19 says of the four analyzers but for clarityTTR being 1: each
\* result is a number in [0,1], entropyNorm is 0 when all tokens are equal,
\* noveltyScore is 1 for a non-empty sequence against the empty history and
\* 0 when the set of the tokens is the history set.
AnalyzersInRange ==
    /\ InUnitInterval(called.entropy) /\ InUnitInterval(called.clarity)
    /\ InUnitInterval(called.coherence) /\ InUnitInterval(called.novelty)
    /\ Cardinality(Range(called.tokens)) <= 1 => called.entropy = Num(0)
    /\ (called.tokens # <<>> /\ called.historySet = {}) => called.novelty = Num(1)
    /\ Range(called.tokens) = called.historySet => called.novelty = Num(0)

\* C19 as stated: the four analyzers return numbers in [0,1]; clarityTTR is
\* 1 exactly when all tokens are distinct, entropyNorm is 0 when all tokens
\* are equal, noveltyScore is 1 for a non-empty sequence against the empty
\* history and 0 when the set of the tokens is the history set.
C19_AnalyzersInUnitInterval ==
    called.op = "analyzers" =>
        /\ AnalyzersInRange
        /\ called.clarity = Num(1) <=> AllDistinct(called.tokens)

\* C19, amended: the same, clarityTTR being 1 exactly when the sequence is
\* not empty and all its tokens are distinct, and 0 for the empty sequence.
C19_AnalyzersInUnitIntervalClarityOfNonEmpty ==
    called.op = "analyzers" =>
        /\ AnalyzersInRange
        /\ called.clarity = Num(1) <=>
              (called.tokens # <<>> /\ AllDistinct(called.tokens))
        /\ called.tokens = <<>> => called.clarity = Num(0)

\* Three distinct tokens against a history that holds one of them.
C19_Witness ==
    /\ called.op = "analyzers"
    /\ called.tokens = <<"a", "b", "c">>
    /\ called.historySet = {"a", "d"}
    /\ called.clarity = Num(1)
    /\ called.entropy = Num(1)
    /\ called.novelty = Rat(3, 4)

-----------------------------------------------------------------------------
(* C20 *)

\* The token set of the messages of the session that precede its newest
\* message.
PrecedingTokenSet(table, sid) ==
    LET rows == RowsOf(table, sid)
    IN  getHistoryTokenSet(SubSeq(rows, 1, Len(rows) - 1), sid, HistoryLimit, FALSE)

\* C20: in a request in which nothing fails, the novelty of the response is
\* scored against the token set of the messages of the session that precede
\* the response, which does not contain the response.
C20_HistoryPrecedesResponse ==
    [][(posts' = posts + 1 /\ faults' = faults) =>
          rParts'.novelty =
              noveltyScore(tokenize(rText'),
                           PrecedingTokenSet(messagesTable', response'.sessionId))]_vars

-----------------------------------------------------------------------------
(* C21 *)

\* The token set of the newest limit messages of a table.
NewestTokenSet(table, limit) ==
    LET first == IF Len(table) > limit THEN Len(table) - limit + 1 ELSE 1
    IN  Range(tokenize(JoinContents(SubSeq(table, first, Len(table)))))

\* C21: the history token set of a session is built from its newest limit
\* messages (200 by default): in a session that holds more, the tokens of
\* the newer messages are in the set and the tokens found only in the
\* oldest messages are not.
C21_HistoryIsRollingWindow ==
    called.op = "getHistoryTokenSet" =>
        called.ret = NewestTokenSet(called.table, called.limit)

-----------------------------------------------------------------------------
(* C22 *)

\* The share of the markers of a list that a text contains in any casing.
DensityInAnyCase(text, markers) ==
    Rat(Cardinality({i \in 1..Len(markers) :
                        includes(toLowerCase(text), toLowerCase(markers[i]))}),
        Len(markers))

\* C22: marker matching is case-insensitive for every marker of every list:
\* each marker a message contains in any casing adds 1/|list| to the density
\* of its detector, so a message that contains all markers of a list has
\* density 1.
C22_MarkersMatchInAnyCase ==
    called.op = "detectParadigmCrisis" =>
        \A d \in DOMAIN MarkerLists :
            called.ret[d] = DensityInAnyCase(called.message, MarkerLists[d])

-----------------------------------------------------------------------------
(* C26 *)

\* C26: the accumulation trackAnomalyAccumulation returns, the mean severity
\* of the retained entries, is in [0,1] whatever anomaly lists were passed.
C26_AccumulationInUnitInterval ==
    pOp = "trackAnomalyAccumulation" => InUnitInterval(pRet.accumulation)

-----------------------------------------------------------------------------
(* C23 *)

Chain == <<"TRANSCENDENT", "INTEGRATION", "PARADOX", "UNCERTAINTY", "QUESTIONING">>

\* The positions in Chain of the phases whose condition holds for metrics.
Holding(metrics) ==
    LET composite ==
            RDiv(RAdd(RAdd(RAdd(RAdd(metrics.entropy, metrics.uncertainty),
                                metrics.paradox),
                           metrics.depth),
                      metrics.breakthrough),
                 Num(5))
        holds ==
            <<RGt(composite, Rat(9, 10)),
              RGt(metrics.depth, Rat(7, 10)) /\ RGt(metrics.entropy, Rat(6, 10)),
              RGt(metrics.paradox, Rat(5, 10)),
              RGt(metrics.uncertainty, Rat(6, 10)),
              RGt(metrics.uncertainty, Rat(4, 10))>>
    IN  {i \in 1..Len(Chain) : holds[i]}

\* C23 as stated: when the conditions of several phases hold for the metrics
\* of a message, the one that comes last in the chain decides the phase;
\* when none holds the phase is SURFACE.
C23_LaterConditionDecides ==
    called.op = "analyzeMessage" =>
        LET holding == Holding(called.ret.metrics)
        IN  called.ret.phase =
                IF holding = {} THEN "SURFACE"
                ELSE Chain[CHOOSE i \in holding : \A j \in holding : j <= i]

\* C23, amended: when the conditions of several phases hold for the metrics
\* of a message, the one that comes first in the chain decides the phase;
\* when none holds the phase is SURFACE.
C23_EarlierConditionDecides ==
    called.op = "analyzeMessage" =>
        LET holding == Holding(called.ret.metrics)
        IN  called.ret.phase =
                IF holding = {} THEN "SURFACE"
                ELSE Chain[CHOOSE i \in holding : \A j \in holding : i <= j]

\* A message with two paradox words and full uncertainty, but neither long
\* nor varied: the conditions of PARADOX, UNCERTAINTY and QUESTIONING hold.
C23_Witness ==
    /\ called.op = "analyzeMessage"
    /\ Holding(called.ret.metrics) = {3, 4, 5}
    /\ called.ret.phase = "PARADOX"

-----------------------------------------------------------------------------
(* C24 *)

UncertainIn(text) == IncludedCount(toLowerCase(text), uncertaintyWords)

QuestionMarksIn(text) == MatchCount(text, {"?"})

\* C24: the uncertainty score of a message is at most 1 and at least the
\* score of every message with no more uncertainty markers and no more
\* question marks; for "maybe", "perhaps" and three question marks it is
\* above the score of a message without a marker and a question mark.
C24_UncertaintyIsMonotoneAndCapped ==
    called.op = "analyzeMessage" =>
        LET score == called.ret.metrics.uncertainty
        IN  /\ RLe(score, Num(1))
            /\ \A uncertain \in 0..UncertainIn(called.text),
                  questionMarks \in 0..QuestionMarksIn(called.text),
                  others \in {<<>>, PlainWords} :
                  RLe(uncertaintyScore(EngineMessage(uncertain, 0, 0, others,
                                                     questionMarks)),
                      score)
            /\ (UncertainIn(called.text) >= 2 /\ QuestionMarksIn(called.text) >= 3) =>
                  RGt(score, analyzeMessage(JoinMarkers(PlainWords)).metrics.uncertainty)

\* "maybe, perhaps???" scores 2/3 + 3/5, capped at 1.
C24_Witness ==
    /\ called.op = "analyzeMessage"
    /\ called.text = "maybe, perhaps???"
    /\ called.ret.metrics.uncertainty = Num(1)
    /\ analyzeMessage(JoinMarkers(PlainWords)).metrics.uncertainty = Num(0)

-----------------------------------------------------------------------------
(* C28 *)

LastPassed == passed[Len(passed)]

\* C28: after every analyzeForCrisis call groundingScore is in [30,100] and
\* the abstractness of the message in [0,0.7]; the grounding disjunct of
\* needsIntervention never holds, and reality_disconnect is detected only
\* for a message that holds a disconnect marker, the grounding threshold of
\* detectRealityDisconnect never being met.
C28_GroundingStaysAboveThreshold ==
    /\ RLe(Num(30), safetyMetrics.groundingScore)
    /\ RLe(safetyMetrics.groundingScore, Num(100))
    /\ ~RLt(safetyMetrics.groundingScore,
            RSub(Num(100), safetyThresholds.realityDisconnect))
    /\ needsIntervention <=>
          \/ RGt(safetyMetrics.overwhelmIndex, Num(70))
          \/ RGt(safetyMetrics.cognitiveLoad, Num(85))
          \/ RLt(safetyMetrics.emotionalStability, Num(30))
          \/ RLt(safetyMetrics.coherenceLevel, Num(30))
    /\ passed # <<>> =>
          /\ RLe(Num(0), calculateAbstractness(LastPassed))
          /\ RLe(calculateAbstractness(LastPassed), Rat(7, 10))
          /\ \A i \in 1..Len(cIndicators) :
                cIndicators[i].type = "reality_disconnect" =>
                    MarkerCount(LastPassed, disconnectMarkers) >= 1

\* "fake" holds a disconnect marker and no concrete word: its grounding is
\* 30, its abstractness 0.7, and reality_disconnect is detected.
C28_Witness ==
    /\ passed = <<"fake">>
    /\ safetyMetrics.groundingScore = Num(30)
    /\ calculateAbstractness(LastPassed) = Rat(7, 10)
    /\ \E i \in 1..Len(cIndicators) : cIndicators[i].type = "reality_disconnect"

-----------------------------------------------------------------------------
(* C29 *)

DetectorSeverities == {"low", "medium", "high"}

PriorityOf(severity) ==
    CASE severity = "high" -> 2
      [] severity = "medium" -> 3
      [] severity = "low" -> 4

\* C29: every indicator the detectors of analyzeForCrisis produce, the
\* returned one included, has severity low, medium or high, never critical;
\* generateIntervention applied to such an indicator appends exactly one
\* entry to the intervention history, whose priority is 2 for high, 3 for
\* medium and 4 for low, never 1.
C29_NoCriticalSeverity ==
    [][/\ \A i \in 1..Len(cIndicators') :
             cIndicators'[i].severity \in DetectorSeverities
       /\ cRet' # NoIndicator => cRet'.severity \in DetectorSeverities
       /\ (passed' = passed /\ messageHistory' = messageHistory) =>
             \E i \in 1..Len(cIndicators) :
                 /\ Len(interventionHistory') = Len(interventionHistory) + 1
                 /\ SubSeq(interventionHistory', 1, Len(interventionHistory))
                        = interventionHistory
                 /\ interventionHistory'[Len(interventionHistory')].type
                        = cIndicators[i].type
                 /\ interventionHistory'[Len(interventionHistory')].priority
                        = PriorityOf(cIndicators[i].severity)]_vars

\* An intervention of priority 2 generated for an indicator of severity high.
C29_Witness ==
    /\ interventionHistory # <<>>
    /\ interventionHistory[1].priority = 2
    /\ \E i \in 1..Len(cIndicators) :
          /\ cIndicators[i].severity = "high"
          /\ cIndicators[i].type = interventionHistory[1].type

-----------------------------------------------------------------------------
(* C27 *)

\* C27: whatever alpha is, in (0,1] or not, the value ema returns for a
\* previous value and a current value that are numbers lies in the closed
\* interval between the two: an alpha outside the range is clamped, not
\* extrapolated with.
C27_EmaNeverExtrapolates ==
    (called.op = "ema" /\ IsFinite(called.prev) /\ IsFinite(called.now)) =>
        /\ RLe(MathMin(called.prev, called.now), called.ret)
        /\ RLe(called.ret, MathMax(called.prev, called.now))

-----------------------------------------------------------------------------
(* C30 *)

\* The request stored at most one metrics row, and that row names an
\* assistant message the same request stored in the session it answers with.
MetricsRowFollowsAssistantMessage ==
    \/ metricsTable' = metricsTable
    \/ /\ Len(metricsTable') = Len(metricsTable) + 1
       /\ SubSeq(metricsTable', 1, Len(metricsTable)) = metricsTable
       /\ LET row == metricsTable'[Len(metricsTable')]
          IN  /\ row.message_id > Len(messagesTable)
              /\ row.message_id <= Len(messagesTable')
              /\ messagesTable'[row.message_id].role = "assistant"
              /\ messagesTable'[row.message_id].session_id = row.session_id
              /\ row.session_id = response'.sessionId

\* C30: every metrics row belongs to an assistant message stored earlier in
\* the same request and session; a request whose model call fails writes no
\* session, no message and no metrics row and answers with status 500, and a
\* request whose assistant message cannot be stored writes no metrics row.
C30_MetricsRowFollowsItsMessage ==
    [][posts' = posts + 1 =>
          /\ MetricsRowFollowsAssistantMessage
          /\ \A message \in UserMessages, sessionId \in {NoSession} \cup 1..sessions,
                responseText \in Replies :
                /\ POST(message, sessionId, responseText, "model") =>
                      /\ sessions' = sessions
                      /\ messagesTable' = messagesTable
                      /\ metricsTable' = metricsTable
                      /\ response'.status = 500
                /\ POST(message, sessionId, responseText, "insertAssistant") =>
                      /\ metricsTable' = metricsTable
                      /\ response'.status = 500]_vars

\* A request answered with status 500 that wrote nothing, after a request
\* that stored its two messages and its metrics row.
C30_Witness ==
    /\ posts = 2
    /\ response.status = 500
    /\ Len(messagesTable) = 2
    /\ Len(metricsTable) = 1
    /\ metricsTable[1].message_id = 2
    /\ messagesTable[2].role = "assistant"

-----------------------------------------------------------------------------
(* C25 *)

\* C25: when two requests for one session are handled concurrently, no
\* update of the stored EMA is lost: where nothing failed, each metrics row
\* of a session after its first holds the EMA computed from the
\* composite_ema of the row stored before it, as in a sequential handling
\* of the requests.
C25_NoLostEmaUpdate ==
    faults = 0 =>
        \A sid \in 1..sessions :
            LET rows == RowsOf(metricsTable, sid)
            IN  \A i \in 2..Len(rows) :
                    rows[i].composite_ema
                        = ema(rows[i - 1].composite_ema, rows[i].composite, Rat(3, 10))

=============================================================================
